---- MODULE Spec2Model ----
(***************************************************************************)
(* A model of the error-code analyzer "reeverify" (go-serum-analyzer).     *)
(*                                                                         *)
(* The module holds several specifications over one set of variables:      *)
(*   SpecValid  the pure validator isErrorCodeValid on bounded strings;    *)
(*   Spec       one pass of runVerify over a package;                      *)
(*   SpecRerun  Spec followed by a second pass over the same package;      *)
(*   SpecReorder  Spec followed by a pass over the package reordered;      *)
(*   SpecTerminate  one pass under the assumption that it keeps running;   *)
(*   SpecInFunc  one call of findAffectorsInFunc on a function body;       *)
(*   SpecErrTypes  the ErrorType facts of one pass over a package's types; *)
(*   SpecAnyReceiver  the same, Code() having a value or pointer receiver; *)
(*   SpecDocs  findErrorDocs on one doc comment;                           *)
(*   SpecField  extractFieldErrorCodes on one affector of a field type.    *)
(* A specification leaves the variables of the others at their idle value. *)
(***************************************************************************)
EXTENDS Integers, Sequences, FiniteSets, TLC

VARIABLES
    code,            \* isErrorCodeValid: the string under test (bytes)
    codeChecked,     \* isErrorCodeValid: has it been applied
    valid,           \* isErrorCodeValid: its result
    pkg,             \* the package under analysis (never changes in a pass)
    pc,              \* position of runVerify
    funcsToAnalyse,  \* runVerify: result of findErrorReturningFunctions
    funcClaims,      \* runVerify: result of findClaimedErrorCodes
    todo,            \* runVerify: claiming functions the range loop has not reached
    analysisResults, \* lookup.analysisResults
    scc,             \* scc.State
    frames,          \* call stack of findAffectorsOfErrorReturnInFunc
    diags,           \* diagnostics reported through pass.Report*, in order
    foundCodes,      \* runVerify: foundCodes of each finished loop iteration
    facts,           \* ErrorCodes facts exported through pass.ExportObjectFact
    prev,            \* outcome of an earlier pass over the same package
    components,      \* the components scc.EndVisit has returned, in order
    inFunc,          \* findAffectorsInFunc: its input and where it stands
    errTypes,        \* the error types of the package and their ErrorType facts
    docRun,          \* findErrorDocs: a doc comment and where the parser stands in it
    fieldRun         \* extractFieldErrorCodes: an affector, its ErrorType, the outcome

vars == <<code, codeChecked, valid, pkg, pc, funcsToAnalyse, funcClaims, todo,
          analysisResults, scc, frames, diags, foundCodes, facts, prev, components,
          inFunc, errTypes, docRun, fieldRun>>

validVars == <<code, codeChecked, valid>>
passVars == <<pkg, pc, funcsToAnalyse, funcClaims, todo, analysisResults, scc,
              frames, diags, foundCodes, facts, prev, components>>

(***************************************************************************)
(* isErrorCodeValid                                                        *)
(***************************************************************************)

\* Longest string the validator is tried on.
MaxLen == 3

\* Bytes of the strings tried: 'a' 'z' 'A' 'Z' '0' '9' '-' ' ' '$'.
Alphabet == {97, 122, 65, 90, 48, 57, 45, 32, 36}

Strings == UNION {[1..n -> Alphabet] : n \in 0..MaxLen}

isValidChar(c) ==
    \/ c = 45
    \/ (c >= 97 /\ c <= 122)
    \/ (c >= 65 /\ c <= 90)
    \/ (c >= 48 /\ c <= 57)

\* A plausible slip: the check of the first byte is left out.
isErrorCodeValidNoFirstCheck(s) ==
    /\ Len(s) # 0
    /\ s[Len(s)] # 45
    /\ \A i \in 1..Len(s) : isValidChar(s[i])

\* A plausible slip: the check of the last byte is left out.
isErrorCodeValidNoLastCheck(s) ==
    /\ Len(s) # 0
    /\ ~(s[1] = 45 \/ (s[1] >= 48 /\ s[1] <= 57))
    /\ \A i \in 1..Len(s) : isValidChar(s[i])

isErrorCodeValid(s) ==
    IF Len(s) = 0 THEN FALSE
    ELSE IF s[1] = 45 \/ (s[1] >= 48 /\ s[1] <= 57) THEN FALSE
    ELSE IF s[Len(s)] = 45 THEN FALSE
    ELSE \A i \in 1..Len(s) : isValidChar(s[i])

(***************************************************************************)
(* The package under analysis                                              *)
(*                                                                         *)
(* A package is a function from function identifiers to declarations.  A   *)
(* declaration holds what the pass reads of an *ast.FuncDecl:              *)
(*   name     Name.Name ("Cause", or another exported or unexported name); *)
(*   recv     "none" (no receiver), "plain" (a receiver whose type does    *)
(*            not implement tReeErrorWithCause) or "cause" (one that does);*)
(*   results  Type.Results.List: one entry per *ast.Field, with the number *)
(*            of results it declares (a, b T declares two) and whether     *)
(*            its type implements error; <<>> when Results is nil;         *)
(*   doc      the doc comment (present or nil, and its lines);             *)
(*   body     the return statements in source order, each given by what    *)
(*            findAffectorsInFunc yields for its last result expression.   *)
(* Error codes are numbered in lexicographic order.                        *)
(***************************************************************************)

\* Functions declared in a package.
NumFuncs == 3
\* Most call edges in a package of the call-graph family, the named graphs apart.
MaxEdges == 2
\* Most entries in a result list.
MaxResultFields == 2

Funcs == 1..NumFuncs
Codes == 1..NumFuncs

\* Names: what the pass reads of one is whether it is exported.
Names == {"Cause", "Unwrap", "unwrap"}
IsExported(name) == name \in {"Cause", "Unwrap"}

\* The names of the other functions of a package, one each: the functions of a
\* package are keyed by name.
HelperNames == <<"first", "second", "third", "fourth", "fifth", "sixth">>

\* isMethod
IsMethodDecl(d) == d.recv # "none"

\* Doc comment lines, by their shape.
LProse == [t |-> "prose", c |-> 0]
LBlank == [t |-> "blank", c |-> 0]
LErrors == [t |-> "errors", c |-> 0]
LNone == [t |-> "none", c |-> 0]
LCode(c) == [t |-> "code", c |-> c]

NilDoc == [present |-> FALSE, lines |-> <<>>]
DocOf(lines) == [present |-> TRUE, lines |-> lines]

\* "- c -- ..." lines for the codes of S, in ascending order.
RECURSIVE CodeLines(_)
CodeLines(S) ==
    IF S = {} THEN <<>>
    ELSE LET c == CHOOSE x \in S : \A y \in S : x <= y
         IN  <<LCode(c)>> \o CodeLines(S \ {c})

DocProse == DocOf(<<LProse>>)
DocNone == DocOf(<<LProse, LBlank, LNone>>)
DocBlock(S) == DocOf(<<LProse, LBlank, LErrors, LBlank>> \o CodeLines(S))
DocNoBlankLine == DocOf(<<LProse, LBlank, LErrors, LCode(1)>>)

\* A Go codeSet value: nil, or a set.
NilSet == [isNil |-> TRUE, elems |-> {}]
SetOf(S) == [isNil |-> FALSE, elems |-> S]

\* The text of a code, by its number: "a", "a-a", "a0", "aZ", "z" (valid, in
\* lexicographic order), and the shapes of InvalidCodeFormat1..5: "a-", "-a",
\* "0a", "a(a", "a a".
CodeTexts ==
    << <<97>>, <<97, 45, 97>>, <<97, 48>>, <<97, 90>>, <<122>>,
       <<97, 45>>, <<45, 97>>, <<48, 97>>, <<97, 40, 97>>, <<97, 32, 97>> >>
CodeText(c) == CodeTexts[c]
BadCodes == {c \in DOMAIN CodeTexts : c > 5}

MsgDeclaredFormat == "declared error code has invalid format"

\* A plausible slip: a second indicator is noticed inside a block only.
SMStepRepeatInBlock(st, line) ==
    IF st.err # "" THEN st
    ELSE IF line.t \in {"errors", "none"} /\ st.s \in {"justOpened", "expectCodes"}
        THEN [st EXCEPT !.err = "repeated 'Errors:' block indicator"]
    ELSE IF st.s = "outside"
        THEN IF line.t = "errors" THEN [st EXCEPT !.s = "justOpened"]
             ELSE IF line.t = "none"
                 THEN [st EXCEPT !.s = "inlineNone", !.codes = SetOf({})]
             ELSE st
    ELSE IF st.s = "justOpened"
        THEN IF line.t = "blank"
                 THEN [st EXCEPT !.s = "expectCodes", !.codes = SetOf({})]
             ELSE [st EXCEPT !.err =
                       "need a blank line after the 'Errors:' block indicator"]
    ELSE IF st.s = "expectCodes"
        THEN IF line.t = "code"
                 THEN IF isErrorCodeValid(CodeText(line.c))
                          THEN [st EXCEPT !.codes = SetOf(st.codes.elems \cup {line.c})]
                          ELSE [st EXCEPT !.err = MsgDeclaredFormat]
             ELSE IF line.t = "blank" THEN [st EXCEPT !.s = "afterBlock"]
             ELSE st
    ELSE st

\* A plausible slip: every line that is not a code line ends the block.
SMStepProseEndsBlock(st, line) ==
    IF st.err # "" THEN st
    ELSE IF line.t \in {"errors", "none"} /\ st.s # "outside"
        THEN [st EXCEPT !.err = "repeated 'Errors:' block indicator"]
    ELSE IF st.s = "outside"
        THEN IF line.t = "errors" THEN [st EXCEPT !.s = "justOpened"]
             ELSE IF line.t = "none"
                 THEN [st EXCEPT !.s = "inlineNone", !.codes = SetOf({})]
             ELSE st
    ELSE IF st.s = "justOpened"
        THEN IF line.t = "blank"
                 THEN [st EXCEPT !.s = "expectCodes", !.codes = SetOf({})]
             ELSE [st EXCEPT !.err =
                       "need a blank line after the 'Errors:' block indicator"]
    ELSE IF st.s = "expectCodes"
        THEN IF line.t = "code"
                 THEN IF isErrorCodeValid(CodeText(line.c))
                          THEN [st EXCEPT !.codes = SetOf(st.codes.elems \cup {line.c})]
                          ELSE [st EXCEPT !.err = MsgDeclaredFormat]
             ELSE [st EXCEPT !.s = "afterBlock"]
    ELSE st

\* findErrorDocsSM.step: one line of the doc comment.  A blank line ends the
\* block; a prose line inside it does not (docformat.Correct).
SMStep(st, line) ==
    IF st.err # "" THEN st
    ELSE IF line.t \in {"errors", "none"} /\ st.s # "outside"
        THEN [st EXCEPT !.err = "repeated 'Errors:' block indicator"]
    ELSE IF st.s = "outside"
        THEN IF line.t = "errors" THEN [st EXCEPT !.s = "justOpened"]
             ELSE IF line.t = "none"
                 THEN [st EXCEPT !.s = "inlineNone", !.codes = SetOf({})]
             ELSE st
    ELSE IF st.s = "justOpened"
        THEN IF line.t = "blank"
                 THEN [st EXCEPT !.s = "expectCodes", !.codes = SetOf({})]
             ELSE [st EXCEPT !.err =
                       "need a blank line after the 'Errors:' block indicator"]
    ELSE IF st.s = "expectCodes"
        THEN IF line.t = "code"
                 THEN IF isErrorCodeValid(CodeText(line.c))
                          THEN [st EXCEPT !.codes = SetOf(st.codes.elems \cup {line.c})]
                          ELSE [st EXCEPT !.err = MsgDeclaredFormat]
             ELSE IF line.t = "blank" THEN [st EXCEPT !.s = "afterBlock"]
             ELSE st
    ELSE st

RECURSIVE SMRun(_, _)
SMRun(st, lines) ==
    IF lines = <<>> THEN st ELSE SMRun(SMStep(st, Head(lines)), Tail(lines))

\* findErrorDocs: (codeSet, error), the error as its message ("" for nil).
findErrorDocs(d) ==
    IF ~d.doc.present THEN [codes |-> NilSet, err |-> ""]
    ELSE LET st == SMRun([s |-> "outside", codes |-> NilSet, err |-> ""],
                         d.doc.lines)
         IN  IF st.err # "" THEN [codes |-> NilSet, err |-> st.err]
             ELSE [codes |-> st.codes, err |-> ""]

\* What findAffectorsInFunc yields.  A value creation &T{v} or a conversion
\* T(v) of error type T; a call of a function of this package; a call whose
\* callee has an imported ErrorCodes fact; a call through a package-qualified
\* selector without one; a method call (to = 0: searchMethod finds nothing).
ILit(typ, val) == [k |-> "lit", typ |-> typ, val |-> val, to |-> 0, codes |-> {}]
IConv(typ) == [k |-> "conv", typ |-> typ, val |-> 0, to |-> 0, codes |-> {}]
ICall(g) == [k |-> "call", typ |-> "", val |-> 0, to |-> g, codes |-> {}]
IFact(S) == [k |-> "fact", typ |-> "", val |-> 0, to |-> 0, codes |-> S]
IPkg == [k |-> "pkg", typ |-> "", val |-> 0, to |-> 0, codes |-> {}]
IMeth(g) == [k |-> "meth", typ |-> "", val |-> 0, to |-> g, codes |-> {}]

\* The value of a literal's code field that is no compile-time constant.
NonConst == 0

ErrorResult == [n |-> 1, err |-> TRUE]

DefaultDecl ==
    [name |-> "Unwrap", recv |-> "none", results |-> <<ErrorResult>>,
     doc |-> DocBlock({1}), body |-> << <<ILit("Error", 1)>> >>]

ResultFields == [n : 1..2, err : BOOLEAN]
ResultLists == UNION {[1..k -> ResultFields] : k \in 0..MaxResultFields}

DocSamples ==
    {NilDoc, DocProse, DocNone, DocNoBlankLine, DocBlock({1}), DocBlock({1, 2})}

BodySamples ==
    { << <<ILit("Plain", NonConst)>>, <<ILit("Plain", NonConst)>> >>,
      << <<IFact({2})>>, <<IPkg>>, <<IMeth(0)>> >>,
      << <<ILit("Error", NonConst)>>, <<ILit("StringError", NonConst)>>,
         <<IConv("StringError")>> >>,
      << <<ILit("Error", 1), ILit("Error", 2)>>, <<ICall(2)>> >>,
      << <<ILit("Error", 2)>>, <<ILit("Odd", NonConst)>> >>,
      << <<IPkg, ILit("Error", 2)>>, <<IFact({1})>> >> }

\* Declarations of the function whose signature, docs and body vary.
SubjectDecls ==
    {[DefaultDecl EXCEPT !.results = r] : r \in ResultLists}
    \cup {[DefaultDecl EXCEPT !.name = n, !.recv = rv, !.doc = dc] :
              n \in Names, rv \in {"none", "plain", "cause"}, dc \in DocSamples}
    \cup {[DefaultDecl EXCEPT !.body = b] : b \in BodySamples}

\* The functions beside it: a truthful one, and one with a malformed docstring.
HelperDecls ==
    {DefaultDecl, [DefaultDecl EXCEPT !.doc = DocNoBlankLine]}

AttrPackages ==
    {[f \in Funcs |-> IF f = 1 THEN s
                      ELSE [(IF f = 2 THEN h ELSE DefaultDecl)
                               EXCEPT !.name = HelperNames[f]]] :
         s \in SubjectDecls, h \in HelperDecls}

\* Call graphs: who calls whom through a plain identifier.
\* Graphs with more edges: a cycle of three, cycles with a tail or an entry,
\* a cycle closed through a function that has already returned, nested cycles.
NamedGraphs ==
    { {<<1, 2>>, <<2, 3>>, <<3, 1>>},
      {<<1, 2>>, <<2, 1>>, <<2, 3>>},
      {<<1, 2>>, <<2, 1>>, <<3, 1>>},
      {<<1, 3>>, <<3, 2>>, <<2, 3>>},
      {<<1, 1>>, <<1, 2>>, <<2, 2>>},
      {<<1, 2>>, <<1, 3>>, <<2, 3>>},
      {<<1, 2>>, <<2, 1>>, <<1, 3>>, <<3, 2>>},
      {<<1, 2>>, <<2, 1>>, <<2, 3>>, <<3, 2>>},
      {<<1, 3>>, <<3, 1>>, <<2, 1>>, <<3, 2>>},
      {<<1, 1>>, <<1, 2>>, <<2, 1>>} }

EdgeSets ==
    {E \in SUBSET (Funcs \X Funcs) : Cardinality(E) <= MaxEdges} \cup NamedGraphs

RECURSIVE CallReturns(_, _)
CallReturns(f, S) ==
    IF S = {} THEN <<>>
    ELSE LET g == CHOOSE x \in S : \A y \in S : x <= y
         IN  << <<ICall(g)>> >> \o CallReturns(f, S \ {g})

\* Function f creates &Error{f} and returns the result of each callee; all
\* but the last function declare the codes {1, 2}.
GraphDecl(f, E, lastDocumented) ==
    [DefaultDecl EXCEPT
        !.name = IF f = 1 THEN "Unwrap" ELSE HelperNames[f],
        !.doc = IF f < NumFuncs \/ lastDocumented
                    THEN DocBlock({1}) ELSE NilDoc,
        !.body = << <<ILit("Error", f)>> >>
                 \o CallReturns(f, {g \in Funcs : <<f, g>> \in E})]

GraphPackages ==
    {[f \in Funcs |-> GraphDecl(f, E, ld)] : E \in EdgeSets, ld \in BOOLEAN}

Packages == AttrPackages \cup GraphPackages

(***************************************************************************)
(* Helpers: maps, slices, sorting, diagnostics                             *)
(***************************************************************************)

EmptyMap == <<>>
MapPut(m, k, v) == [x \in DOMAIN m \cup {k} |-> IF x = k THEN v ELSE m[x]]

Range(q) == {q[i] : i \in DOMAIN q}
Min(a, b) == IF a <= b THEN a ELSE b

\* Every order a Go map range may visit the elements of S in.
Orders(S) ==
    {p \in [1..Cardinality(S) -> S] : \A i, j \in DOMAIN p : i # j => p[i] # p[j]}

\* codeSet: union, difference and slice (a slice in no particular order).
union(a, b) == a \cup b
difference(a, b) == a \ b
Slices(S) == Orders(S)

\* sort.Strings
RECURSIVE Insert(_, _)
Insert(x, q) ==
    IF q = <<>> THEN <<x>>
    ELSE IF x <= Head(q) THEN <<x>> \o q
    ELSE <<Head(q)>> \o Insert(x, Tail(q))

RECURSIVE SortStrings(_)
SortStrings(q) == IF q = <<>> THEN <<>> ELSE Insert(Head(q), SortStrings(Tail(q)))

IsSorted(q) == \A i, j \in DOMAIN q : i < j => q[i] < q[j]

\* A diagnostic: its message, the function and the place in it the position
\* names, and the parts the message is formatted from.
Diag(msg, f, pos, detail) == [msg |-> msg, fn |-> f, pos |-> pos, detail |-> detail]
Part(label, codes) == [label |-> label, codes |-> codes]

MsgLast == "error should be returned as the last argument"
MsgOdd == "has odd docstring"
MsgUndeclared == "is exported, but does not declare any error codes"
MsgMismatch == "has a mismatch of declared and actual error codes"
MsgNoCode == "expression does not define an error code"
MsgNotValid == "expression is not a valid error"
MsgNotConst == "error code field has to be instantiated by constant value"
MsgForeign == "function in package does not declare error codes"
MsgUnresolved == "called function does not declare error codes"

(***************************************************************************)
(* Pre-pass and claims                                                     *)
(***************************************************************************)

\* funcLookup.forEach: the functions in map order, then the methods, name by
\* name in map order, the methods of one name in declaration order.
ForEachOrders ==
    {p \in Orders(Funcs) :
        \A i, j \in DOMAIN p :
            i < j =>
                /\ ~(IsMethodDecl(pkg[p[i]]) /\ ~IsMethodDecl(pkg[p[j]]))
                /\ (IsMethodDecl(pkg[p[i]]) /\ IsMethodDecl(pkg[p[j]])
                    /\ pkg[p[i]].name = pkg[p[j]].name) =>
                       /\ p[i] < p[j]
                       /\ \A k \in i..j : /\ IsMethodDecl(pkg[p[k]])
                                          /\ pkg[p[k]].name = pkg[p[i]].name}

implementsError(field) == field.err

\* The diagnostics for the entries i..Len of the result list of f.
RECURSIVE LastArgDiags(_, _)
LastArgDiags(f, i) ==
    IF i > Len(pkg[f].results) THEN <<>>
    ELSE (IF implementsError(pkg[f].results[i])
              THEN <<Diag(MsgLast, f, <<i>>, <<>>)>> ELSE <<>>)
         \o LastArgDiags(f, i + 1)

\* A plausible slip: the first result is inspected instead of the last.
VisitFuncDeclFirstResult(f) ==
    LET rs == pkg[f].results IN
    IF rs = <<>> THEN [analyse |-> FALSE, diags |-> <<>>]
    ELSE IF ~implementsError(rs[1])
        THEN [analyse |-> FALSE, diags |-> LastArgDiags(f, 1)]
    ELSE [analyse |-> TRUE, diags |-> <<>>]

\* The callback findErrorReturningFunctions hands to forEach.
VisitFuncDecl(f) ==
    LET rs == pkg[f].results IN
    IF rs = <<>> THEN [analyse |-> FALSE, diags |-> <<>>]
    ELSE IF ~implementsError(rs[Len(rs)])
        THEN [analyse |-> FALSE, diags |-> LastArgDiags(f, 1)]
    ELSE [analyse |-> TRUE, diags |-> <<>>]

RECURSIVE findErrorReturningFunctions(_)
findErrorReturningFunctions(order) ==
    IF order = <<>> THEN [funcs |-> <<>>, diags |-> <<>>]
    ELSE LET one == VisitFuncDecl(Head(order))
             rest == findErrorReturningFunctions(Tail(order))
         IN  [funcs |-> (IF one.analyse THEN <<Head(order)>> ELSE <<>>) \o rest.funcs,
              diags |-> one.diags \o rest.diags]

\* One iteration of the loop of findClaimedErrorCodes.
ClaimOne(f) ==
    LET d == pkg[f]
        r == findErrorDocs(d)
    IN  IF r.err # ""
            THEN [claims |-> FALSE, codes |-> {},
                  diags |-> <<Diag(MsgOdd, f, <<>>, <<Part(r.err, <<>>)>>)>>]
        ELSE IF Cardinality(r.codes.elems) = 0
            THEN IF IsMethodDecl(d) /\ d.recv = "cause"
                     THEN [claims |-> FALSE, codes |-> {}, diags |-> <<>>]
                 ELSE IF IsExported(d.name)
                     THEN [claims |-> FALSE, codes |-> {},
                           diags |-> <<Diag(MsgUndeclared, f, <<>>, <<>>)>>]
                 ELSE [claims |-> FALSE, codes |-> {}, diags |-> <<>>]
        ELSE [claims |-> TRUE, codes |-> r.codes.elems, diags |-> <<>>]

\* A plausible slip: a malformed docstring ends the loop (break for continue).
RECURSIVE findClaimedErrorCodesBreak(_)
findClaimedErrorCodesBreak(fs) ==
    IF fs = <<>> THEN [claims |-> EmptyMap, diags |-> <<>>]
    ELSE LET f == Head(fs)
             one == ClaimOne(f)
             rest == IF findErrorDocs(pkg[f]).err # ""
                         THEN [claims |-> EmptyMap, diags |-> <<>>]
                         ELSE findClaimedErrorCodesBreak(Tail(fs))
         IN  [claims |-> IF one.claims THEN MapPut(rest.claims, f, one.codes)
                                        ELSE rest.claims,
              diags |-> one.diags \o rest.diags]

RECURSIVE findClaimedErrorCodes(_)
findClaimedErrorCodes(fs) ==
    IF fs = <<>> THEN [claims |-> EmptyMap, diags |-> <<>>]
    ELSE LET f == Head(fs)
             one == ClaimOne(f)
             rest == findClaimedErrorCodes(Tail(fs))
         IN  [claims |-> IF one.claims THEN MapPut(rest.claims, f, one.codes)
                                        ELSE rest.claims,
              diags |-> one.diags \o rest.diags]

(***************************************************************************)
(* Strongly connected components (package scc)                             *)
(***************************************************************************)

StartSCC ==
    [index |-> [f \in Funcs |-> 0], lowlink |-> [f \in Funcs |-> 0],
     stack |-> <<>>, next |-> 1]

OnStack(s, f) == f \in Range(s.stack)

SccVisit(s, f) ==
    [s EXCEPT !.index[f] = s.next, !.lowlink[f] = s.next,
              !.stack = Append(s.stack, f), !.next = s.next + 1]

\* HandleEdge: whether the caller is to recurse, and the state afterwards.
ShouldRecurse(s, from, to) == s.index[to] = 0

SccHandleEdge(s, from, to) ==
    IF s.index[to] # 0 /\ OnStack(s, to)
        THEN [s EXCEPT !.lowlink[from] = Min(s.lowlink[from], s.index[to])]
        ELSE s

SccAfterRecurse(s, from, to) ==
    [s EXCEPT !.lowlink[from] = Min(s.lowlink[from], s.lowlink[to])]

IsComponentRoot(s, f) == s.lowlink[f] = s.index[f]

StackPos(s, f) == CHOOSE i \in DOMAIN s.stack : s.stack[i] = f

\* EndVisit: the component popped when f is a root (top of the stack first).
Component(s, f) ==
    [i \in 1..(Len(s.stack) - StackPos(s, f) + 1) |-> s.stack[Len(s.stack) + 1 - i]]

\* A plausible slip: a root takes only the top of the stack off.
SccEndVisitPopOne(s, f) ==
    IF IsComponentRoot(s, f)
        THEN [s EXCEPT !.stack = SubSeq(s.stack, 1, Len(s.stack) - 1)]
        ELSE s

SccEndVisit(s, f) ==
    IF IsComponentRoot(s, f)
        THEN [s EXCEPT !.stack = SubSeq(s.stack, 1, StackPos(s, f) - 1)]
        ELSE s

(***************************************************************************)
(* The walk: findAffectorsOfErrorReturnInFunc and findAffectors            *)
(***************************************************************************)

\* funcAnalysisResult; an affector is the place <<f, return, index>> of its
\* expression.
EmptyResult == [affectors |-> {}, codes |-> {}]
combine(a, b) ==
    [affectors |-> a.affectors \cup b.affectors, codes |-> union(a.codes, b.codes)]

\* The step results of all returns of f in the order the walk meets them.
RECURSIVE FlatFrom(_, _, _)
FlatFrom(f, ri, si) ==
    IF ri > Len(pkg[f].body) THEN <<>>
    ELSE IF si > Len(pkg[f].body[ri]) THEN FlatFrom(f, ri + 1, 1)
    ELSE <<[ri |-> ri, si |-> si, it |-> pkg[f].body[ri][si]]>>
         \o FlatFrom(f, ri, si + 1)

Items(f) == FlatFrom(f, 1, 1)
ItemAt(a) == pkg[a[1]].body[a[2]][a[3]]

\* A plausible slip: only the root keeps the unified result.
unifyRootOnly(results, component) ==
    LET unified ==
            [affectors |-> UNION {results[component[i]].affectors : i \in DOMAIN component},
             codes |-> UNION {results[component[i]].codes : i \in DOMAIN component}]
        root == component[Len(component)]
    IN  [results |-> [x \in DOMAIN results |-> IF x = root THEN unified ELSE results[x]],
         result |-> unified]

\* unifyAnalysisResultForComponent: lookup.analysisResults afterwards, and
\* the result returned.
unifyAnalysisResultForComponent(results, component) ==
    LET unified ==
            [affectors |-> UNION {results[component[i]].affectors : i \in DOMAIN component},
             codes |-> UNION {results[component[i]].codes : i \in DOMAIN component}]
    IN  [results |-> [x \in DOMAIN results |->
                         IF x \in Range(component) THEN unified ELSE results[x]],
         result |-> unified]

\* types.Implements(typ, tReeError) for the error types of the sample bodies.
checkErrorTypeHasLegibleCode(it) == it.typ \in {"Error", "StringError", "Odd"}

\* The code the Code() method of StringError returns.
StringCode == 3

\* getErrorTypeForError: Error returns its field TheCode, StringError returns a
\* constant, and Code() of Odd returns neither (analyseCodeMethod yields nil).
getErrorTypeForError(typ) ==
    IF typ = "Error" THEN [isNil |-> FALSE, codes |-> {}, field |-> TRUE]
    ELSE IF typ = "StringError"
        THEN [isNil |-> FALSE, codes |-> {StringCode}, field |-> FALSE]
    ELSE [isNil |-> TRUE, codes |-> {}, field |-> FALSE]

\* extractFieldErrorCodes: the constant the literal gives the code field.
extractFieldErrorCodes(it) ==
    IF it.k = "lit" /\ it.val # NonConst
        THEN [ok |-> TRUE, code |-> it.val]
        ELSE [ok |-> FALSE, code |-> 0]

\* One iteration of the loop of extractErrorCodesFromAffectors.
ExtractOne(a) ==
    LET it == ItemAt(a) IN
    IF ~checkErrorTypeHasLegibleCode(it)
        THEN [codes |-> {}, diags |-> <<Diag(MsgNoCode, a[1], <<a[2], a[3]>>, <<>>)>>]
    ELSE LET et == getErrorTypeForError(it.typ) IN
         IF et.isNil
             THEN [codes |-> {},
                   diags |-> <<Diag(MsgNotValid, a[1], <<a[2], a[3]>>, <<>>)>>]
         ELSE IF et.field
             THEN LET x == extractFieldErrorCodes(it) IN
                  IF x.ok THEN [codes |-> et.codes \cup {x.code}, diags |-> <<>>]
                  ELSE [codes |-> et.codes,
                        diags |-> <<Diag(MsgNotConst, a[1], <<a[2], a[3]>>, <<>>)>>]
         ELSE [codes |-> et.codes, diags |-> <<>>]

\* extractErrorCodesFromAffectors, the affectors ranged over in the given order.
RECURSIVE extractErrorCodesFromAffectors(_)
extractErrorCodesFromAffectors(order) ==
    IF order = <<>> THEN [codes |-> {}, diags |-> <<>>]
    ELSE LET one == ExtractOne(Head(order))
             rest == extractErrorCodesFromAffectors(Tail(order))
         IN  [codes |-> union(one.codes, rest.codes), diags |-> one.diags \o rest.diags]

\* A plausible slip: the unused codes are computed the wrong way round.
reportUnusedSwapped(f, missingSlice, unusedSlice) ==
    LET errorMessages ==
            (IF Len(missingSlice) # 0
                 THEN <<Part("missing codes", SortStrings(missingSlice))>> ELSE <<>>)
            \o (IF Len(unusedSlice) # 0
                    THEN <<Part("unused codes", SortStrings(missingSlice))>> ELSE <<>>)
    IN  IF Len(errorMessages) # 0
            THEN <<Diag(MsgMismatch, f, <<>>, errorMessages)>> ELSE <<>>

\* reportIfCodesDoNotMatch, given the slices of the two differences.
reportIfCodesDoNotMatch(f, missingSlice, unusedSlice) ==
    LET errorMessages ==
            (IF Len(missingSlice) # 0
                 THEN <<Part("missing codes", SortStrings(missingSlice))>> ELSE <<>>)
            \o (IF Len(unusedSlice) # 0
                    THEN <<Part("unused codes", SortStrings(unusedSlice))>> ELSE <<>>)
    IN  IF Len(errorMessages) # 0
            THEN <<Diag(MsgMismatch, f, <<>>, errorMessages)>> ELSE <<>>

(***************************************************************************)
(* findAffectorsInFunc                                                     *)
(*                                                                         *)
(* The body of the function within is the sequence of its assignment       *)
(* statements in source order, each with the identifiers on its left and   *)
(* the expressions on its right.  An identifier occurrence (an *ast.Ident) *)
(* is named by its place: <<s, i>> is the i-th expression on the right of  *)
(* statement s, <<0, 1>> the expression of the return statement.           *)
(***************************************************************************)

\* Most assignment statements in a function body.
MaxStmts == 3

LocalVars == {"x", "y"}

EIdent(v) == [k |-> "ident", v |-> v]
ECall == [k |-> "call", v |-> ""]
ELit == [k |-> "lit", v |-> ""]

\* x = e; x, y = f(); x, y = y, x
AssignStmts ==
    {[lhs |-> <<v>>, rhs |-> <<e>>] :
         v \in LocalVars, e \in {EIdent("x"), EIdent("y"), ECall, ELit}}
    \cup {[lhs |-> <<"x", "y">>, rhs |-> <<ECall>>],
          [lhs |-> <<"y", "x">>, rhs |-> <<ECall>>],
          [lhs |-> <<"x", "y">>, rhs |-> <<EIdent("y"), EIdent("x")>>]}

FuncBodies == UNION {[1..n -> AssignStmts] : n \in 0..MaxStmts}

NoExpr == [on |-> FALSE, e |-> ELit, occ |-> <<0, 0>>]

InFuncIdle ==
    [body |-> <<>>, cur |-> NoExpr, stack |-> <<>>, visited |-> {},
     result |-> <<>>, expanded |-> <<>>, reports |-> <<>>]

\* findAffectorsInFunc(pass, expr, within, map[*ast.Ident]struct{}{}) is called
\* for the expression of a return statement.
InFuncStart(body, expr) ==
    [InFuncIdle EXCEPT !.body = body,
                       !.cur = [on |-> TRUE, e |-> expr, occ |-> <<0, 1>>]]

MsgNonLast ==
    "unsupported: tracking error codes for function call with error as non-last return argument"

\* The clause the innermost ast.Inspect stands at: statement s, left side i.
ScanTop == inFunc.stack[Len(inFunc.stack)]
Scanning ==
    /\ ~inFunc.cur.on
    /\ inFunc.stack # <<>>
    /\ ScanTop.s <= Len(inFunc.body)
ScanStmt == inFunc.body[ScanTop.s]
Advance(fr) ==
    IF fr.i < Len(inFunc.body[fr.s].lhs)
        THEN [fr EXCEPT !.i = @ + 1]
        ELSE [fr EXCEPT !.s = @ + 1, !.i = 1]
WithTop(fr) == [inFunc.stack EXCEPT ![Len(inFunc.stack)] = fr]

(***************************************************************************)
(* Error types: getErrorTypeForError and analyseCodeMethod                 *)
(***************************************************************************)

MaxTypeCalls == 2

TypeNames == {"Error", "UnusedError", "StringError"}

\* What a return statement of a Code() method returns: a constant (0 stands
\* for one that isErrorCodeValid rejects), a field of the receiver, or
\* anything else.
BadConst == 0
RConst(c) == [k |-> "const", c |-> c, f |-> ""]
RField(f) == [k |-> "field", c |-> 0, f |-> f]
ROther == [k |-> "other", c |-> 0, f |-> ""]

\* The return statements of a Code() method, in the order of the source.
CodeBodies ==
    { <<RField("TheCode")>>,
      <<RField("Other")>>,
      <<RField("TheCode"), RField("Other")>>,
      <<RField("TheCode"), RField("TheCode")>>,
      <<RConst(1), RField("TheCode")>>,
      <<RConst(StringCode)>>,
      <<RConst(1), RConst(StringCode)>>,
      <<RConst(BadConst)>>,
      <<RConst(BadConst), RConst(1)>>,
      <<ROther>>,
      <<ROther, RConst(1)>> }

\* The field names of the struct the type is declared as, "" for an embedded
\* field; no fields for a type that is not a struct.
FieldLists == {<<>>, <<"TheCode">>, <<"", "TheCode">>}

\* A named type of the package: whether it has Error() and Code(), the
\* receiver of Code() (T or *T), its struct fields and the return statements
\* of Code().  A method that returns a field has a pointer receiver.
TypeDecls ==
    {d \in [coded : BOOLEAN, recv : {"value", "ptr"}, fields : FieldLists,
            returns : CodeBodies] :
        /\ d.recv = "value" => \A i \in DOMAIN d.returns : d.returns[i].k # "field"
        /\ d.recv = "value" <=> d.fields = <<>>
        /\ ~d.coded => d.returns = <<ROther>> /\ d.fields = <<>>}

\* The types of inner1.go.
ErrorDecl ==
    [coded |-> TRUE, recv |-> "ptr", fields |-> <<"TheCode">>,
     returns |-> <<RField("TheCode")>>]
StringErrorDecl ==
    [coded |-> TRUE, recv |-> "value", fields |-> <<>>,
     returns |-> <<RConst(StringCode)>>]

NilField == [isNil |-> TRUE, name |-> "", position |-> 0]
NilErrorType == [isNil |-> TRUE, codes |-> <<>>, field |-> NilField]

MsgCodeFormat == "error code has invalid format"
MsgSingleField == "only single field allowed"
MsgConstOrField == "should always return a string constant or a single field"
MsgFieldInvalid == "is not a valid error code field"

\* receiverType.(*ast.StarExpr) in getFieldPositionUsingMethodReceiver: when
\* the receiver of Code() is no pointer, the function panics.
receiverIsStarExpr(d) == d.recv = "ptr"

\* getFieldPositionUsingMethodReceiver: the index of the first field of that
\* name, embedded fields counted, or -1.
getFieldPositionUsingMethodReceiver(fields, fieldName) ==
    IF \E i \in DOMAIN fields : fields[i] = fieldName
        THEN (CHOOSE i \in DOMAIN fields :
                 /\ fields[i] = fieldName
                 /\ \A j \in DOMAIN fields : fields[j] = fieldName => i <= j) - 1
        ELSE -1

\* The loop of analyseCodeMethod over the return statements of Code().
RECURSIVE InspectReturns(_, _)
InspectReturns(returns, acc) ==
    IF returns = <<>> THEN acc
    ELSE LET r == Head(returns)
             next ==
                 IF r.k = "const"
                     THEN IF r.c # BadConst
                              THEN [acc EXCEPT !.constants = @ \cup {r.c}]
                              ELSE [acc EXCEPT !.diags = Append(@, MsgCodeFormat)]
                 ELSE IF r.k = "field"
                     THEN IF acc.fieldName = ""
                              THEN [acc EXCEPT !.fieldName = r.f]
                          ELSE IF acc.fieldName # r.f
                              THEN [acc EXCEPT !.diags = Append(@, MsgSingleField)]
                          ELSE acc
                 ELSE [acc EXCEPT !.diags = Append(@, MsgConstOrField)]
         IN  InspectReturns(Tail(returns), next)

\* A plausible slip: the field position is counted from one.
analyseCodeMethodFromOne(d) ==
    LET seen == InspectReturns(d.returns, [constants |-> {}, fieldName |-> "", diags |-> <<>>])
        position == getFieldPositionUsingMethodReceiver(d.fields, seen.fieldName)
        field == IF seen.fieldName # "" /\ position >= 0
                     THEN [isNil |-> FALSE, name |-> seen.fieldName, position |-> position + 1]
                     ELSE NilField
        reports == seen.diags \o (IF seen.fieldName # "" /\ position < 0
                                      THEN <<MsgFieldInvalid>> ELSE <<>>)
    IN  {[isNil |-> seen.constants = {} /\ field.isNil,
          codes |-> IF seen.constants = {} /\ field.isNil THEN <<>> ELSE sl,
          field |-> field, diags |-> reports,
          panics |-> seen.fieldName # "" /\ ~receiverIsStarExpr(d),
          inspected |-> seen.diags] :
             sl \in Slices(seen.constants)}

\* analyseCodeMethod: the ErrorType values it can return for a declaration
\* (one for each order constants.slice() can give), with its diagnostics.
analyseCodeMethod(d) ==
    LET seen == InspectReturns(d.returns, [constants |-> {}, fieldName |-> "", diags |-> <<>>])
        position == getFieldPositionUsingMethodReceiver(d.fields, seen.fieldName)
        field == IF seen.fieldName # "" /\ position >= 0
                     THEN [isNil |-> FALSE, name |-> seen.fieldName, position |-> position]
                     ELSE NilField
        reports == seen.diags \o (IF seen.fieldName # "" /\ position < 0
                                      THEN <<MsgFieldInvalid>> ELSE <<>>)
    IN  {[isNil |-> seen.constants = {} /\ field.isNil,
          codes |-> IF seen.constants = {} /\ field.isNil THEN <<>> ELSE sl,
          field |-> field, diags |-> reports,
          panics |-> seen.fieldName # "" /\ ~receiverIsStarExpr(d),
          inspected |-> seen.diags] :
             sl \in Slices(seen.constants)}

\* types.Implements(typ, tReeError) for the type T (via = "value") or *T.
ImplementsReeError(d, via) == d.coded /\ (d.recv = "value" \/ via = "ptr")

\* errorTypesSubset(receiver type, err) in getCodeFuncFromError.
errorTypesSubset(recv, via) == recv = via \/ (via = "ptr" /\ recv = "value")

ErrTypesIdle ==
    [decls |-> <<>>, phase |-> "idle", tagged |-> {}, facts |-> <<>>,
     exports |-> <<>>, analysed |-> <<>>, calls |-> <<>>, diags |-> <<>>]

ErrTypesStart(decls) ==
    [ErrTypesIdle EXCEPT !.decls = decls, !.phase = "tag",
                         !.facts = [t \in TypeNames |-> NilErrorType]]

Called(st, t, via, ret) ==
    [st EXCEPT !.calls = Append(@, [typ |-> t, via |-> via, ret |-> ret])]

\* A plausible slip: the fact is not looked up before the method is analysed.
getErrorTypeForErrorNoImport(st, t, via) ==
    IF ~errorTypesSubset(st.decls[t].recv, via)
        THEN {Called(st, t, via, NilErrorType)}
    ELSE {IF et.panics
              THEN [st EXCEPT !.analysed = Append(@, t),
                              !.diags = @ \o et.inspected,
                              !.phase = "panic"]
              ELSE Called([st EXCEPT
                     !.analysed = Append(@, t),
                     !.diags = @ \o et.diags,
                     !.facts[t] = IF et.isNil THEN @
                                  ELSE [isNil |-> FALSE, codes |-> et.codes, field |-> et.field],
                     !.exports = IF et.isNil THEN @ ELSE Append(@, t)],
                 t, via, [isNil |-> et.isNil, codes |-> et.codes, field |-> et.field])
             : et \in analyseCodeMethod(st.decls[t])}

\* getErrorTypeForError for an error of type T or *T, T a named type of the
\* package: the states it can leave behind.  getNamedType gives T for both.
GetErrorTypeForError(st, t, via) ==
    IF ~st.facts[t].isNil
        THEN {Called(st, t, via, st.facts[t])}
    ELSE IF ~errorTypesSubset(st.decls[t].recv, via)
        THEN {Called(st, t, via, NilErrorType)}
    ELSE {IF et.panics
              THEN [st EXCEPT !.analysed = Append(@, t),
                              !.diags = @ \o et.inspected,
                              !.phase = "panic"]
              ELSE Called([st EXCEPT
                     !.analysed = Append(@, t),
                     !.diags = @ \o et.diags,
                     !.facts[t] = IF et.isNil THEN @
                                  ELSE [isNil |-> FALSE, codes |-> et.codes, field |-> et.field],
                     !.exports = IF et.isNil THEN @ ELSE Append(@, t)],
                 t, via, [isNil |-> et.isNil, codes |-> et.codes, field |-> et.field])
             : et \in analyseCodeMethod(st.decls[t])}

(***************************************************************************)
(* Doc comments for findErrorDocs                                          *)
(***************************************************************************)

MaxDocLines == 5

LineShapes == {LProse, LBlank, LErrors, LNone, LCode(1), LCode(2), LCode(6)}

\* The doc comment of docformat.Correct: hello-error is code 1,
\* hello-unreachable is code 2.
CorrectDoc ==
    <<LProse, LProse, LBlank, LErrors, LBlank, LCode(1), LProse, LCode(2),
      LCode(2), LBlank, LProse, LProse>>

\* The doc comments of InvalidCodeFormat1..5.
InvalidCodeFormatDocs == {<<LProse, LBlank, LErrors, LBlank, LCode(c)>> : c \in BadCodes}

DocTexts ==
    UNION {[1..n -> LineShapes] : n \in 0..MaxDocLines}
        \cup {CorrectDoc} \cup InvalidCodeFormatDocs

SMStart == [s |-> "outside", codes |-> NilSet, err |-> ""]

DocRunIdle ==
    [doc |-> NilDoc, pos |-> 0, st |-> SMStart, returned |-> FALSE,
     result |-> [codes |-> NilSet, err |-> ""]]

(***************************************************************************)
(* Composite literals for extractFieldErrorCodes                           *)
(***************************************************************************)

\* constant.Value.String of a string constant: the quoted text, shortened to
\* maxLen - 3 characters and "..." when it has more than maxLen characters.
\* The texts tried need no escaping.
maxLen == 72
Quote(s) == <<34>> \o s \o <<34>>
ValueString(s) ==
    LET q == Quote(s) IN
    IF Len(q) > maxLen THEN SubSeq(q, 1, maxLen - 3) \o <<46, 46, 46>> ELSE q

\* strconv.Unquote of a double-quoted text without escapes.
Unquote(q) ==
    IF /\ Len(q) >= 2
       /\ q[1] = 34
       /\ q[Len(q)] = 34
       /\ \A i \in 2..(Len(q) - 1) : q[i] \notin {34, 92}
        THEN [ok |-> TRUE, s |-> SubSeq(q, 2, Len(q) - 1)]
        ELSE [ok |-> FALSE, s |-> <<>>]

MsgUnquote == "problem unquoting string constant value"
MsgNoFieldDef == "cannot extract field error code without field definition"

\* getErrorCodeFromConstant for a constant of kind String (the constant is
\* the value of a field that Code() string returns).
getErrorCodeFromConstant(value) ==
    LET u == Unquote(ValueString(value.s)) IN
    IF ~u.ok THEN [code |-> <<>>, err |-> MsgUnquote]
    ELSE IF ~isErrorCodeValid(u.s) THEN [code |-> <<>>, err |-> MsgCodeFormat]
    ELSE [code |-> u.s, err |-> ""]

\* The key-based loop of extractFieldErrorCodes from element i on: the
\* constant at the key of the field's name, if there is one.
RECURSIVE KeyedLookup(_, _, _)
KeyedLookup(elts, i, name) ==
    IF i > Len(elts) THEN [found |-> FALSE, val |-> <<>>]
    ELSE IF elts[i].key = "" THEN [found |-> FALSE, val |-> <<>>]
    ELSE IF elts[i].key = name /\ elts[i].val.const
        THEN [found |-> TRUE, val |-> elts[i].val]
    ELSE KeyedLookup(elts, i + 1, name)

\* extractFieldErrorCodes(pass, expr, funcDecl, errorType).  The type checker
\* records no type for a key-value element, so the position-based lookup
\* finds a value in an unkeyed literal only.
RECURSIVE ExtractFieldErrorCodes(_, _)
ExtractFieldErrorCodes(expr, errorType) ==
    IF errorType.isNil \/ errorType.field.isNil
        THEN [code |-> <<>>, err |-> MsgNoFieldDef]
    ELSE IF expr.k = "lit"
        THEN LET byKey == KeyedLookup(expr.elts, 1, errorType.field.name)
                 pos == errorType.field.position
             IN  IF byKey.found THEN getErrorCodeFromConstant(byKey.val)
                 ELSE IF /\ pos < Len(expr.elts)
                         /\ expr.elts[pos + 1].key = ""
                         /\ expr.elts[pos + 1].val.const
                     THEN getErrorCodeFromConstant(expr.elts[pos + 1].val)
                 ELSE [code |-> <<>>, err |-> MsgNotConst]
    ELSE IF expr.k = "amp" THEN ExtractFieldErrorCodes(expr.x, errorType)
    ELSE [code |-> <<>>, err |-> MsgNotConst]

\* A text of n letters: a valid code.
LongCode(n) == [i \in 1..n |-> 97]

\* The values given to the fields of a literal: an expression that is no
\* constant, or a string constant: two short valid codes, one with a trailing
\* dash, and valid codes of maxLen - 2 and of maxLen - 1 letters.
NonConstValue == [const |-> FALSE, s |-> <<>>]
ConstValue(s) == [const |-> TRUE, s |-> s]
FieldValues ==
    {NonConstValue}
    \cup {ConstValue(t) : t \in {CodeText(1), CodeText(2), CodeText(6),
                                 LongCode(maxLen - 2), LongCode(maxLen - 1)}}

\* The struct types of the affectors, by their field names in order.
StructShapes == {<<"TheCode">>, <<"TheCode", "Other">>, <<"Other", "TheCode">>}

\* T{...}, &T{...} and the conversion T(v).
ELiteral(keyed, elts) == [k |-> "lit", keyed |-> keyed, elts |-> elts]
EAmp(x) == [k |-> "amp", x |-> x]
EConv == [k |-> "conv"]

\* The elements of a keyed literal of the struct: some of its fields, each
\* once, in any order.
KeyedElts(fs) ==
    UNION {{[i \in 1..n |-> [key |-> ks[i], val |-> vs[i]]] :
               ks \in {k \in [1..n -> Range(fs)] :
                          \A i, j \in 1..n : i # j => k[i] # k[j]},
               vs \in [1..n -> FieldValues]} : n \in 0..Len(fs)}

\* The elements of an unkeyed literal: none, or one for every field.
UnkeyedElts(fs) ==
    {<<>>} \cup {[i \in 1..Len(fs) |-> [key |-> "", val |-> vs[i]]] :
                    vs \in [1..Len(fs) -> FieldValues]}

Literals(fs) ==
    {ELiteral(TRUE, e) : e \in KeyedElts(fs)}
    \cup {ELiteral(FALSE, e) : e \in UnkeyedElts(fs)}

Affectors(fs) == Literals(fs) \cup {EAmp(l) : l \in Literals(fs)} \cup {EConv}

\* The ErrorType of the struct: Code() returns the field TheCode, and may
\* return a constant as well.
FieldErrorTypes(fs) ==
    {[isNil |-> FALSE, codes |-> cs,
      field |-> [isNil |-> FALSE, name |-> "TheCode",
                 position |-> getFieldPositionUsingMethodReceiver(fs, "TheCode")]] :
         cs \in {<<>>, <<CodeText(2)>>}}

FieldRunIdle ==
    [expr |-> EConv, errorType |-> NilErrorType, fields |-> <<>>, done |-> FALSE,
     result |-> {}, reports |-> <<>>]

NoPackage == <<>>

PassIdle ==
    /\ pkg = NoPackage
    /\ pc = "idle"
    /\ funcsToAnalyse = <<>>
    /\ funcClaims = <<>>
    /\ todo = {}
    /\ analysisResults = <<>>
    /\ scc = <<>>
    /\ frames = <<>>
    /\ diags = <<>>
    /\ foundCodes = <<>>
    /\ facts = <<>>
    /\ prev = <<>>
    /\ components = <<>>

InitValid ==
    /\ code \in Strings
    /\ codeChecked = FALSE
    /\ valid = FALSE
    /\ PassIdle
    /\ inFunc = InFuncIdle
    /\ errTypes = ErrTypesIdle
    /\ docRun = DocRunIdle
    /\ fieldRun = FieldRunIdle

CheckCode ==
    /\ pc = "idle"
    /\ ~codeChecked
    /\ codeChecked' = TRUE
    /\ valid' = isErrorCodeValid(code)
    /\ UNCHANGED <<fieldRun, code, passVars, inFunc, errTypes, docRun>>

NextValid == CheckCode

SpecValid == InitValid /\ [][NextValid]_vars

(***************************************************************************)
(* runVerify                                                               *)
(***************************************************************************)

ValidIdle ==
    /\ code = <<>>
    /\ codeChecked = FALSE
    /\ valid = FALSE

Init ==
    /\ ValidIdle
    /\ pkg \in Packages
    /\ pc = "start"
    /\ funcsToAnalyse = <<>>
    /\ funcClaims = EmptyMap
    /\ todo = {}
    /\ analysisResults = EmptyMap
    /\ scc = StartSCC
    /\ frames = <<>>
    /\ diags = <<>>
    /\ foundCodes = EmptyMap
    /\ facts = EmptyMap
    /\ prev = <<>>
    /\ components = <<>>
    /\ inFunc = InFuncIdle
    /\ errTypes = ErrTypesIdle
    /\ docRun = DocRunIdle
    /\ fieldRun = FieldRunIdle

\* funcsToAnalyse := findErrorReturningFunctions(pass, lookup)
FindErrorReturningFunctions ==
    /\ pc = "start"
    /\ \E order \in ForEachOrders :
           LET r == findErrorReturningFunctions(order) IN
           /\ funcsToAnalyse' = r.funcs
           /\ diags' = diags \o r.diags
    /\ pc' = "claims"
    /\ UNCHANGED <<fieldRun, validVars, inFunc, errTypes, docRun, pkg, funcClaims, todo, analysisResults, scc, frames,
                   foundCodes, facts, prev, components>>

\* funcClaims := findClaimedErrorCodes(pass, funcsToAnalyse); scc := StartSCC().
\* funcsToAnalyse is not read again.
FindClaimedErrorCodes ==
    /\ pc = "claims"
    /\ LET r == findClaimedErrorCodes(funcsToAnalyse) IN
           /\ funcClaims' = r.claims
           /\ todo' = DOMAIN r.claims
           /\ diags' = diags \o r.diags
    /\ funcsToAnalyse' = <<>>
    /\ scc' = StartSCC
    /\ pc' = "verify"
    /\ UNCHANGED <<fieldRun, validVars, inFunc, errTypes, docRun, pkg, analysisResults, frames, foundCodes, facts, prev, components>>

\* The rest of a loop iteration of runVerify for function f, once its
\* analysisResult is known: extract the codes of the affectors, compare, report.
FinishIteration(f, analysisResult) ==
    /\ \E order \in Orders(analysisResult.affectors) :
           LET affectorCodes == extractErrorCodesFromAffectors(order)
               found == union(analysisResult.codes, affectorCodes.codes)
               claimed == funcClaims[f]
           IN  /\ foundCodes' = MapPut(foundCodes, f, found)
               /\ \E missingSlice \in Slices(difference(found, claimed)),
                     unusedSlice \in Slices(difference(claimed, found)) :
                      diags' = diags \o affectorCodes.diags
                                     \o reportIfCodesDoNotMatch(f, missingSlice, unusedSlice)
    /\ todo' = todo \ {f}

Top == frames[Len(frames)]
TopItem == Items(Top.fn)[Top.pos].it
TopPlace == Items(Top.fn)[Top.pos]
AtItem == frames # <<>> /\ Top.pos <= Len(Items(Top.fn))
SetTop(fr) == [frames EXCEPT ![Len(frames)] = fr]

\* The loop of runVerify reaches f, whose result is already in the lookup.
VerifyCached(f) ==
    /\ pc = "verify"
    /\ frames = <<>>
    /\ f \in todo
    /\ f \in DOMAIN analysisResults
    /\ FinishIteration(f, analysisResults[f])
    /\ UNCHANGED <<fieldRun, validVars, inFunc, errTypes, docRun, pkg, pc, funcsToAnalyse, funcClaims, analysisResults,
                   scc, frames, facts, prev, components>>

\* A plausible slip: runVerify does not look the function up in
\* lookup.analysisResults before it analyses it.
VerifyStartNoLookup(f) ==
    /\ pc = "verify"
    /\ frames = <<>>
    /\ f \in todo
    /\ scc' = SccVisit(scc, f)
    /\ frames' = <<[fn |-> f, pos |-> 1, result |-> EmptyResult]>>
    /\ UNCHANGED <<fieldRun, validVars, inFunc, errTypes, docRun, pkg, pc, funcsToAnalyse, funcClaims, todo,
                   analysisResults, diags, foundCodes, facts, prev, components>>

\* The loop of runVerify reaches f and calls findAffectorsOfErrorReturnInFunc.
VerifyStart(f) ==
    /\ pc = "verify"
    /\ frames = <<>>
    /\ f \in todo
    /\ f \notin DOMAIN analysisResults
    /\ scc' = SccVisit(scc, f)
    /\ frames' = <<[fn |-> f, pos |-> 1, result |-> EmptyResult]>>
    /\ UNCHANGED <<fieldRun, validVars, inFunc, errTypes, docRun, pkg, pc, funcsToAnalyse, funcClaims, todo,
                   analysisResults, diags, foundCodes, facts, prev, components>>

\* findAffectors: a value creation or a conversion is an affector.
AddAffector ==
    /\ AtItem
    /\ TopItem.k \in {"lit", "conv"}
    /\ frames' = SetTop([Top EXCEPT
                    !.result.affectors = @ \cup {<<Top.fn, TopPlace.ri, TopPlace.si>>},
                    !.pos = @ + 1])
    /\ UNCHANGED <<fieldRun, validVars, inFunc, errTypes, docRun, pkg, pc, funcsToAnalyse, funcClaims, todo,
                   analysisResults, scc, diags, foundCodes, facts, prev, components>>

\* findAffectors: the callee has an ErrorCodes fact.
UseFact ==
    /\ AtItem
    /\ TopItem.k = "fact"
    /\ frames' = SetTop([Top EXCEPT !.result.codes = union(@, TopItem.codes),
                                    !.pos = @ + 1])
    /\ UNCHANGED <<fieldRun, validVars, inFunc, errTypes, docRun, pkg, pc, funcsToAnalyse, funcClaims, todo,
                   analysisResults, scc, diags, foundCodes, facts, prev, components>>

\* A plausible slip: the call that was reported is kept as an affector.
ReportForeignAsAffector ==
    /\ AtItem
    /\ TopItem.k = "pkg"
    /\ diags' = Append(diags, Diag(MsgForeign, Top.fn, <<TopPlace.ri, TopPlace.si>>, <<>>))
    /\ frames' = SetTop([Top EXCEPT
                    !.result.affectors = @ \cup {<<Top.fn, TopPlace.ri, TopPlace.si>>},
                    !.pos = @ + 1])
    /\ UNCHANGED <<fieldRun, validVars, inFunc, errTypes, docRun, pkg, pc, funcsToAnalyse, funcClaims, todo,
                   analysisResults, scc, foundCodes, facts, prev, components>>

\* findAffectors: a call into another package without a fact.
ReportForeign ==
    /\ AtItem
    /\ TopItem.k = "pkg"
    /\ diags' = Append(diags, Diag(MsgForeign, Top.fn, <<TopPlace.ri, TopPlace.si>>, <<>>))
    /\ frames' = SetTop([Top EXCEPT !.pos = @ + 1])
    /\ UNCHANGED <<fieldRun, validVars, inFunc, errTypes, docRun, pkg, pc, funcsToAnalyse, funcClaims, todo,
                   analysisResults, scc, foundCodes, facts, prev, components>>

\* findAffectors: searchMethod finds no declaration.
ReportUnresolved ==
    /\ AtItem
    /\ TopItem.k = "meth"
    /\ TopItem.to = 0
    /\ diags' = Append(diags, Diag(MsgUnresolved, Top.fn, <<TopPlace.ri, TopPlace.si>>, <<>>))
    /\ frames' = SetTop([Top EXCEPT !.pos = @ + 1])
    /\ UNCHANGED <<fieldRun, validVars, inFunc, errTypes, docRun, pkg, pc, funcsToAnalyse, funcClaims, todo,
                   analysisResults, scc, foundCodes, facts, prev, components>>

\* A plausible slip: a resolved call is recursed into whatever HandleEdge says.
CallRecurseAlways ==
    /\ AtItem
    /\ TopItem.k \in {"call", "meth"}
    /\ TopItem.to # 0
    /\ scc' = SccVisit(SccHandleEdge(scc, Top.fn, TopItem.to), TopItem.to)
    /\ frames' = Append(frames, [fn |-> TopItem.to, pos |-> 1, result |-> EmptyResult])
    /\ UNCHANGED <<fieldRun, validVars, inFunc, errTypes, docRun, pkg, pc, funcsToAnalyse, funcClaims, todo,
                   analysisResults, diags, foundCodes, facts, prev, components>>

\* findAffectors: a resolved call, HandleEdge says recurse.
CallRecurse ==
    /\ AtItem
    /\ TopItem.k \in {"call", "meth"}
    /\ TopItem.to # 0
    /\ ShouldRecurse(scc, Top.fn, TopItem.to)
    /\ scc' = SccVisit(SccHandleEdge(scc, Top.fn, TopItem.to), TopItem.to)
    /\ frames' = Append(frames, [fn |-> TopItem.to, pos |-> 1, result |-> EmptyResult])
    /\ UNCHANGED <<fieldRun, validVars, inFunc, errTypes, docRun, pkg, pc, funcsToAnalyse, funcClaims, todo,
                   analysisResults, diags, foundCodes, facts, prev, components>>

\* A plausible slip: the cached result of a callee that is not recursed into
\* is dropped.
CallNoRecurseNoCache ==
    /\ AtItem
    /\ TopItem.k \in {"call", "meth"}
    /\ TopItem.to # 0
    /\ ~ShouldRecurse(scc, Top.fn, TopItem.to)
    /\ scc' = SccHandleEdge(scc, Top.fn, TopItem.to)
    /\ frames' = SetTop([Top EXCEPT !.pos = @ + 1])
    /\ UNCHANGED <<fieldRun, validVars, inFunc, errTypes, docRun, pkg, pc, funcsToAnalyse, funcClaims, todo,
                   analysisResults, diags, foundCodes, facts, prev, components>>

\* findAffectors: a resolved call, HandleEdge says do not recurse; the cached
\* result, if there is one, is combined.
CallNoRecurse ==
    /\ AtItem
    /\ TopItem.k \in {"call", "meth"}
    /\ TopItem.to # 0
    /\ ~ShouldRecurse(scc, Top.fn, TopItem.to)
    /\ scc' = SccHandleEdge(scc, Top.fn, TopItem.to)
    /\ LET analysisResult == IF TopItem.to \in DOMAIN analysisResults
                                 THEN analysisResults[TopItem.to] ELSE EmptyResult
       IN  frames' = SetTop([Top EXCEPT !.result = combine(@, analysisResult),
                                         !.pos = @ + 1])
    /\ UNCHANGED <<fieldRun, validVars, inFunc, errTypes, docRun, pkg, pc, funcsToAnalyse, funcClaims, todo,
                   analysisResults, diags, foundCodes, facts, prev, components>>

\* A plausible slip: the component is never unified.
EndOfFuncNoUnify ==
    [results |-> MapPut(analysisResults, Top.fn, Top.result), result |-> Top.result]

\* The end of findAffectorsOfErrorReturnInFunc for the function on top: the
\* lookup afterwards and the result returned.
EndOfFunc ==
    LET f == Top.fn
        stored == MapPut(analysisResults, f, Top.result)
    IN  IF IsComponentRoot(scc, f)
            THEN unifyAnalysisResultForComponent(stored, Component(scc, f))
            ELSE [results |-> stored, result |-> Top.result]

\* isComponentRoot, component := scc.EndVisit(funcDecl): the components
\* returned so far.
EndVisitComponents ==
    IF IsComponentRoot(scc, Top.fn)
        THEN Append(components, Component(scc, Top.fn))
        ELSE components

\* A plausible slip: the caller does not call scc.AfterRecurse.
FuncReturnNoAfterRecurse ==
    /\ Len(frames) >= 2
    /\ ~AtItem
    /\ LET caller == frames[Len(frames) - 1] IN
           /\ analysisResults' = EndOfFunc.results
           /\ scc' = SccEndVisit(scc, Top.fn)
           /\ frames' = Append(SubSeq(frames, 1, Len(frames) - 2),
                               [caller EXCEPT !.result = combine(@, EndOfFunc.result),
                                              !.pos = @ + 1])
    /\ components' = EndVisitComponents
    /\ UNCHANGED <<fieldRun, validVars, inFunc, errTypes, docRun, pkg, pc, funcsToAnalyse, funcClaims, todo, diags,
                   foundCodes, facts, prev>>

\* findAffectorsOfErrorReturnInFunc returns to findAffectors of the caller.
FuncReturn ==
    /\ Len(frames) >= 2
    /\ ~AtItem
    /\ LET caller == frames[Len(frames) - 1] IN
           /\ analysisResults' = EndOfFunc.results
           /\ scc' = SccAfterRecurse(SccEndVisit(scc, Top.fn), caller.fn, Top.fn)
           /\ frames' = Append(SubSeq(frames, 1, Len(frames) - 2),
                               [caller EXCEPT !.result = combine(@, EndOfFunc.result),
                                              !.pos = @ + 1])
    /\ components' = EndVisitComponents
    /\ UNCHANGED <<fieldRun, validVars, inFunc, errTypes, docRun, pkg, pc, funcsToAnalyse, funcClaims, todo, diags,
                   foundCodes, facts, prev>>

\* findAffectorsOfErrorReturnInFunc returns to runVerify, which finishes the
\* loop iteration.
FuncReturnTop ==
    /\ Len(frames) = 1
    /\ ~AtItem
    /\ analysisResults' = EndOfFunc.results
    /\ scc' = SccEndVisit(scc, Top.fn)
    /\ frames' = <<>>
    /\ FinishIteration(Top.fn, EndOfFunc.result)
    /\ components' = EndVisitComponents
    /\ UNCHANGED <<fieldRun, validVars, inFunc, errTypes, docRun, pkg, pc, funcsToAnalyse, funcClaims, facts, prev>>

\* ErrorCodes.String: the codes of a fact, sorted.
ErrorCodesString(codes) == SortStrings(codes)

\* The ways to hand out one slice for the set of each function.
SliceMaps(sets) ==
    {m \in [DOMAIN sets -> UNION {Slices(sets[f]) : f \in DOMAIN sets}] :
        \A f \in DOMAIN sets : m[f] \in Slices(sets[f])}

\* A plausible slip: the codes found are exported instead of the codes claimed.
exportFoundCodes(claims) ==
    SliceMaps([f \in DOMAIN claims |-> foundCodes[f]])

\* exportFunctionErrorCodes: the facts it can export, each ErrorCodes{codeSet.slice()}.
exportFunctionErrorCodes(claims) == SliceMaps(claims)

ExportFunctionErrorCodes ==
    /\ pc = "verify"
    /\ frames = <<>>
    /\ todo = {}
    /\ facts' \in exportFunctionErrorCodes(funcClaims)
    /\ pc' = "done"
    /\ UNCHANGED <<fieldRun, validVars, inFunc, errTypes, docRun, pkg, funcsToAnalyse, funcClaims, todo, analysisResults,
                   scc, frames, diags, foundCodes, prev, components>>

Next ==
    \/ FindErrorReturningFunctions
    \/ FindClaimedErrorCodes
    \/ \E f \in Funcs : VerifyCached(f)
    \/ \E f \in Funcs : VerifyStart(f)
    \/ AddAffector
    \/ UseFact
    \/ ReportForeign
    \/ ReportUnresolved
    \/ CallRecurse
    \/ CallNoRecurse
    \/ FuncReturn
    \/ FuncReturnTop
    \/ ExportFunctionErrorCodes

Spec == Init /\ [][Next]_vars

\* The driver runs the analyzer a second time on the same package.
Rerun ==
    /\ pc = "done"
    /\ prev = <<>>
    /\ prev' = <<[diags |-> diags, facts |-> facts]>>
    /\ components' = <<>>
    /\ pc' = "start"
    /\ funcsToAnalyse' = <<>>
    /\ funcClaims' = EmptyMap
    /\ todo' = {}
    /\ analysisResults' = EmptyMap
    /\ scc' = StartSCC
    /\ frames' = <<>>
    /\ diags' = <<>>
    /\ foundCodes' = EmptyMap
    /\ facts' = EmptyMap
    /\ UNCHANGED <<fieldRun, validVars, inFunc, errTypes, docRun, pkg>>

NextRerun == Next \/ Rerun

SpecRerun == Init /\ [][NextRerun]_vars

\* The packages whose return statements are reordered between two passes: the
\* named call graphs, the call graphs with fewer than MaxEdges edges, and the
\* sample bodies.
ReorderPackages ==
    {[f \in Funcs |-> GraphDecl(f, E, TRUE)] :
         E \in NamedGraphs
                \cup {E \in SUBSET (Funcs \X Funcs) : Cardinality(E) < MaxEdges}}
    \cup {[f \in Funcs |-> IF f = 1 THEN [DefaultDecl EXCEPT !.body = b]
                            ELSE [DefaultDecl EXCEPT !.name = HelperNames[f]]] :
              b \in BodySamples}

\* The same elements in every order.
Reordered(q) == {[i \in DOMAIN q |-> q[p[i]]] : p \in Orders(DOMAIN q)}

\* The bodies with the return statements of b, and the step results of each,
\* in another order.
RECURSIVE PermuteEach(_)
PermuteEach(b) ==
    IF b = <<>> THEN {<<>>}
    ELSE {<<r>> \o rest : r \in Reordered(Head(b)), rest \in PermuteEach(Tail(b))}

ReorderedBodies(b) == UNION {Reordered(c) : c \in PermuteEach(b)}

\* The packages that differ from p in the order of the return statements of
\* the functions f..NumFuncs.
RECURSIVE Reorderings(_, _)
Reorderings(p, f) ==
    IF f > NumFuncs THEN {p}
    ELSE UNION {Reorderings([p EXCEPT ![f].body = b], f + 1) :
                    b \in ReorderedBodies(p[f].body)}

InitReorder ==
    /\ Init
    /\ pkg \in ReorderPackages

\* The driver runs the analyzer again after the return statements of the
\* package have been reordered.
Reorder ==
    /\ pc = "done"
    /\ prev = <<>>
    /\ prev' = <<[found |-> foundCodes]>>
    /\ pkg' \in Reorderings(pkg, 1)
    /\ pc' = "start"
    /\ funcsToAnalyse' = <<>>
    /\ funcClaims' = EmptyMap
    /\ todo' = {}
    /\ analysisResults' = EmptyMap
    /\ scc' = StartSCC
    /\ frames' = <<>>
    /\ diags' = <<>>
    /\ foundCodes' = EmptyMap
    /\ facts' = EmptyMap
    /\ components' = <<>>
    /\ UNCHANGED <<fieldRun, validVars, inFunc, errTypes, docRun>>

NextReorder == Next \/ Reorder

SpecReorder == InitReorder /\ [][NextReorder]_vars

\* The steps inside a top-level call of findAffectorsOfErrorReturnInFunc.
Walk ==
    \/ AddAffector
    \/ UseFact
    \/ ReportForeign
    \/ ReportUnresolved
    \/ CallRecurse
    \/ CallNoRecurse
    \/ FuncReturn
    \/ FuncReturnTop

\* One pass in which the walk keeps running: the analyzer is a sequential
\* program, so a step of the walk that can be taken is taken.
SpecTerminate == InitReorder /\ [][Next]_vars /\ WF_vars(Walk)

(***************************************************************************)
(* One call of findAffectorsInFunc from findAffectors                      *)
(***************************************************************************)

InitInFunc ==
    /\ ValidIdle
    /\ PassIdle
    /\ \E body \in FuncBodies, expr \in {EIdent("x"), ECall} :
           inFunc = InFuncStart(body, expr)
    /\ errTypes = ErrTypesIdle
    /\ docRun = DocRunIdle
    /\ fieldRun = FieldRunIdle

\* case *ast.CallExpr, *ast.CompositeLit, *ast.BasicLit: the expression is an
\* affector.
EvalTerminal ==
    /\ inFunc.cur.on
    /\ inFunc.cur.e.k \in {"call", "lit"}
    /\ inFunc' = [inFunc EXCEPT !.result = Append(@, inFunc.cur.occ), !.cur = NoExpr]
    /\ UNCHANGED <<fieldRun, validVars, passVars, errTypes, docRun>>

\* A plausible slip: an identifier is expanded whether visited or not.
EvalIdentNoVisited ==
    /\ inFunc.cur.on
    /\ inFunc.cur.e.k = "ident"
    /\ inFunc' = [inFunc EXCEPT
                     !.visited = @ \cup {inFunc.cur.occ},
                     !.expanded = Append(@, inFunc.cur.occ),
                     !.stack = Append(@, [occ |-> inFunc.cur.occ, v |-> inFunc.cur.e.v,
                                          s |-> 1, i |-> 1]),
                     !.cur = NoExpr]
    /\ UNCHANGED <<fieldRun, validVars, passVars, errTypes, docRun>>

\* case *ast.Ident: return when the occurrence is in visited; otherwise put
\* it there and inspect the body for assignments to its object.
EvalIdent ==
    /\ inFunc.cur.on
    /\ inFunc.cur.e.k = "ident"
    /\ inFunc' = IF inFunc.cur.occ \in inFunc.visited
                     THEN [inFunc EXCEPT !.cur = NoExpr]
                     ELSE [inFunc EXCEPT
                              !.visited = @ \cup {inFunc.cur.occ},
                              !.expanded = Append(@, inFunc.cur.occ),
                              !.stack = Append(@, [occ |-> inFunc.cur.occ,
                                                   v |-> inFunc.cur.e.v,
                                                   s |-> 1, i |-> 1]),
                              !.cur = NoExpr]
    /\ UNCHANGED <<fieldRun, validVars, passVars, errTypes, docRun>>

\* The clause on the left is not the identifier's object.
SkipClause ==
    /\ Scanning
    /\ ScanStmt.lhs[ScanTop.i] # ScanTop.v
    /\ inFunc' = [inFunc EXCEPT !.stack = WithTop(Advance(ScanTop))]
    /\ UNCHANGED <<fieldRun, validVars, passVars, errTypes, docRun>>

\* A plausible slip: the call is kept as an affector although the clause is
\* not the last.
DestructureNonLastKeepsCall ==
    /\ Scanning
    /\ ScanStmt.lhs[ScanTop.i] = ScanTop.v
    /\ Len(ScanStmt.lhs) > Len(ScanStmt.rhs)
    /\ ScanTop.i # Len(ScanStmt.lhs)
    /\ inFunc' = [inFunc EXCEPT
                     !.reports = Append(@, [msg |-> MsgNonLast, at |-> <<ScanTop.s, ScanTop.i>>]),
                     !.result = Append(@, <<ScanTop.s, 1>>),
                     !.stack = WithTop([ScanTop EXCEPT !.s = @ + 1, !.i = 1])]
    /\ UNCHANGED <<fieldRun, validVars, passVars, errTypes, docRun>>

\* len(Lhs) > len(Rhs) and the clause is not the last: report, and leave the
\* statement.
DestructureNonLast ==
    /\ Scanning
    /\ ScanStmt.lhs[ScanTop.i] = ScanTop.v
    /\ Len(ScanStmt.lhs) > Len(ScanStmt.rhs)
    /\ ScanTop.i # Len(ScanStmt.lhs)
    /\ inFunc' = [inFunc EXCEPT
                     !.reports = Append(@, [msg |-> MsgNonLast, at |-> <<ScanTop.s, ScanTop.i>>]),
                     !.stack = WithTop([ScanTop EXCEPT !.s = @ + 1, !.i = 1])]
    /\ UNCHANGED <<fieldRun, validVars, passVars, errTypes, docRun>>

\* len(Lhs) > len(Rhs) and the clause is the last: the call on the right is
\* an affector.
DestructureLast ==
    /\ Scanning
    /\ ScanStmt.lhs[ScanTop.i] = ScanTop.v
    /\ Len(ScanStmt.lhs) > Len(ScanStmt.rhs)
    /\ ScanTop.i = Len(ScanStmt.lhs)
    /\ ScanStmt.rhs[1].k = "call"
    /\ inFunc' = [inFunc EXCEPT !.result = Append(@, <<ScanTop.s, 1>>),
                                !.stack = WithTop(Advance(ScanTop))]
    /\ UNCHANGED <<fieldRun, validVars, passVars, errTypes, docRun>>

\* A plausible slip: the inspection stops at the first assignment it follows.
RecurseRhsFirstOnly ==
    /\ Scanning
    /\ ScanStmt.lhs[ScanTop.i] = ScanTop.v
    /\ Len(ScanStmt.lhs) <= Len(ScanStmt.rhs)
    /\ inFunc' = [inFunc EXCEPT
                     !.cur = [on |-> TRUE, e |-> ScanStmt.rhs[ScanTop.i],
                              occ |-> <<ScanTop.s, ScanTop.i>>],
                     !.stack = WithTop([ScanTop EXCEPT !.s = Len(inFunc.body) + 1,
                                                       !.i = 1])]
    /\ UNCHANGED <<fieldRun, validVars, passVars, errTypes, docRun>>

\* Otherwise: findAffectorsInFunc(pass, assignment.Rhs[i], within, visited).
RecurseRhs ==
    /\ Scanning
    /\ ScanStmt.lhs[ScanTop.i] = ScanTop.v
    /\ Len(ScanStmt.lhs) <= Len(ScanStmt.rhs)
    /\ inFunc' = [inFunc EXCEPT
                     !.cur = [on |-> TRUE, e |-> ScanStmt.rhs[ScanTop.i],
                              occ |-> <<ScanTop.s, ScanTop.i>>],
                     !.stack = WithTop(Advance(ScanTop))]
    /\ UNCHANGED <<fieldRun, validVars, passVars, errTypes, docRun>>

\* ast.Inspect has seen every statement: the call for the identifier returns.
EndInspect ==
    /\ ~inFunc.cur.on
    /\ inFunc.stack # <<>>
    /\ ScanTop.s > Len(inFunc.body)
    /\ inFunc' = [inFunc EXCEPT !.stack = SubSeq(@, 1, Len(@) - 1)]
    /\ UNCHANGED <<fieldRun, validVars, passVars, errTypes, docRun>>

NextInFunc ==
    \/ EvalTerminal
    \/ EvalIdent
    \/ SkipClause
    \/ DestructureNonLast
    \/ DestructureLast
    \/ RecurseRhs
    \/ EndInspect

\* findAffectorsInFunc is sequential code: it keeps running until it returns.
SpecInFunc == InitInFunc /\ [][NextInFunc]_vars /\ WF_vars(NextInFunc)

(***************************************************************************)
(* The ErrorType facts of one pass                                         *)
(***************************************************************************)

InitErrTypes ==
    /\ ValidIdle
    /\ PassIdle
    /\ inFunc = InFuncIdle
    /\ docRun = DocRunIdle
    /\ fieldRun = FieldRunIdle
    /\ \E decls \in [TypeNames -> TypeDecls] :
           /\ decls["Error"] = ErrorDecl
           /\ decls["UnusedError"].recv = "ptr"
           /\ decls["StringError"].recv = "value"
           /\ errTypes = ErrTypesStart(decls)

\* findAndTagErrorTypes: one named type of the package; a type with Error()
\* and Code() gets its ErrorType looked up.
TagErrorType ==
    /\ errTypes.phase = "tag"
    /\ \E t \in TypeNames \ errTypes.tagged :
           LET st == [errTypes EXCEPT !.tagged = @ \cup {t}] IN
           IF errTypes.decls[t].coded
               THEN errTypes' \in GetErrorTypeForError(st, t, errTypes.decls[t].recv)
               ELSE errTypes' = st
    /\ UNCHANGED <<fieldRun, validVars, passVars, inFunc, docRun>>

\* findAndTagErrorTypes returns.
EndTagErrorTypes ==
    /\ errTypes.phase = "tag"
    /\ errTypes.tagged = TypeNames
    /\ errTypes' = [errTypes EXCEPT !.phase = "use"]
    /\ UNCHANGED <<fieldRun, validVars, passVars, inFunc, docRun>>

\* extractErrorCodesFromAffectors meets an affector of type T or *T that
\* implements tReeError.
UseErrorType ==
    /\ errTypes.phase = "use"
    /\ Len(errTypes.calls) < Cardinality(TypeNames) + MaxTypeCalls
    /\ \E t \in TypeNames, via \in {"value", "ptr"} :
           /\ ImplementsReeError(errTypes.decls[t], via)
           /\ errTypes' \in GetErrorTypeForError(errTypes, t, via)
    /\ UNCHANGED <<fieldRun, validVars, passVars, inFunc, docRun>>

\* runVerify returns.
EndErrTypes ==
    /\ errTypes.phase = "use"
    /\ errTypes' = [errTypes EXCEPT !.phase = "done"]
    /\ UNCHANGED <<fieldRun, validVars, passVars, inFunc, docRun>>

\* The declarations with any receiver for Code(): a method with a value
\* receiver may return a field of it.
AnyReceiverDecls ==
    {d \in [coded : {TRUE}, recv : {"value", "ptr"}, fields : FieldLists,
            returns : CodeBodies] :
        \A i \in DOMAIN d.returns : d.returns[i].k = "field" => d.fields # <<>>}

\* A package whose type UnusedError has a Code() method with any receiver.
InitAnyReceiver ==
    /\ ValidIdle
    /\ PassIdle
    /\ inFunc = InFuncIdle
    /\ docRun = DocRunIdle
    /\ fieldRun = FieldRunIdle
    /\ \E decls \in [TypeNames -> TypeDecls \cup AnyReceiverDecls] :
           /\ decls["Error"] = ErrorDecl
           /\ decls["UnusedError"] \in AnyReceiverDecls
           /\ decls["StringError"] = StringErrorDecl
           /\ errTypes = ErrTypesStart(decls)

NextErrTypes ==
    \/ TagErrorType
    \/ EndTagErrorTypes
    \/ UseErrorType
    \/ EndErrTypes

SpecErrTypes == InitErrTypes /\ [][NextErrTypes]_vars

SpecAnyReceiver == InitAnyReceiver /\ [][NextErrTypes]_vars

(***************************************************************************)
(* findErrorDocs on one doc comment                                        *)
(***************************************************************************)

InitDocs ==
    /\ ValidIdle
    /\ PassIdle
    /\ inFunc = InFuncIdle
    /\ errTypes = ErrTypesIdle
    /\ fieldRun = FieldRunIdle
    /\ \E d \in {NilDoc} \cup {DocOf(lines) : lines \in DocTexts} :
           docRun = [DocRunIdle EXCEPT !.doc = d]

\* findErrorDocsSM.run hands the next line to step.
StepLine ==
    /\ ~docRun.returned
    /\ docRun.st.err = ""
    /\ docRun.pos < Len(docRun.doc.lines)
    /\ docRun' = [docRun EXCEPT !.pos = @ + 1,
                                !.st = SMStep(@, docRun.doc.lines[docRun.pos + 1])]
    /\ UNCHANGED <<fieldRun, validVars, passVars, inFunc, errTypes>>

\* findErrorDocs returns.
ReturnDocs ==
    /\ ~docRun.returned
    /\ docRun.st.err # "" \/ docRun.pos = Len(docRun.doc.lines)
    /\ docRun' = [docRun EXCEPT !.returned = TRUE,
                                !.result = findErrorDocs([doc |-> docRun.doc])]
    /\ UNCHANGED <<fieldRun, validVars, passVars, inFunc, errTypes>>

NextDocs ==
    \/ StepLine
    \/ ReturnDocs

SpecDocs == InitDocs /\ [][NextDocs]_vars

(***************************************************************************)
(* One affector of a type with a code field                                *)
(***************************************************************************)

InitField ==
    /\ ValidIdle
    /\ PassIdle
    /\ inFunc = InFuncIdle
    /\ errTypes = ErrTypesIdle
    /\ docRun = DocRunIdle
    /\ \E fs \in StructShapes :
           \E expr \in Affectors(fs), et \in FieldErrorTypes(fs) :
               fieldRun = [FieldRunIdle EXCEPT !.expr = expr, !.errorType = et,
                                               !.fields = fs]

\* The iteration of extractErrorCodesFromAffectors for the affector, from the
\* ErrorType on: its constant codes are added, then the code of its field or
\* the report of the error.
ExtractFromAffector ==
    /\ ~fieldRun.done
    /\ ~fieldRun.errorType.isNil
    /\ LET et == fieldRun.errorType
           withCodes == IF Len(et.codes) > 0 THEN Range(et.codes) ELSE {}
           x == ExtractFieldErrorCodes(fieldRun.expr, et)
       IN  fieldRun' =
               IF et.field.isNil
                   THEN [fieldRun EXCEPT !.done = TRUE, !.result = withCodes]
               ELSE IF x.err = ""
                   THEN [fieldRun EXCEPT !.done = TRUE,
                                         !.result = withCodes \cup {x.code}]
               ELSE [fieldRun EXCEPT !.done = TRUE, !.result = withCodes,
                                     !.reports = Append(@, x.err)]
    /\ UNCHANGED <<validVars, passVars, inFunc, errTypes, docRun>>

NextField == ExtractFromAffector

SpecField == InitField /\ [][NextField]_vars

(***************************************************************************)
(* Properties                                                              *)
(***************************************************************************)

\* How many diagnostics with this message name function f.
DiagCount(f, msg) ==
    Cardinality({i \in DOMAIN diags : diags[i].fn = f /\ diags[i].msg = msg})

\* The function's last result implements error.
ReturnsError(f) ==
    /\ pkg[f].results # <<>>
    /\ pkg[f].results[Len(pkg[f].results)].err

Declared(f) == findErrorDocs(pkg[f])

\* The ascending sequence of the elements of S.
SortedSeqOf(S) == CHOOSE q \in Orders(S) : IsSorted(q)

\* The places <<return statement, step result>> of the body of f.
Places(f) ==
    UNION {{<<ri, si>> : si \in DOMAIN pkg[f].body[ri]} : ri \in DOMAIN pkg[f].body}

\* Functions f calls through a resolved call of this package.
Callees(f) ==
    {ItemAt(<<f, p[1], p[2]>>).to :
        p \in {q \in Places(f) :
                  /\ ItemAt(<<f, q[1], q[2]>>).k \in {"call", "meth"}
                  /\ ItemAt(<<f, q[1], q[2]>>).to # 0}}

RECURSIVE ReachFrom(_)
ReachFrom(S) ==
    LET T == S \cup UNION {Callees(g) : g \in S}
    IN  IF T = S THEN S ELSE ReachFrom(T)

Reach(f) == ReachFrom({f})

\* Reach for the functions 1..n, as a sequence.
RECURSIVE ReachUpTo(_)
ReachUpTo(n) == IF n = 0 THEN <<>> ELSE Append(ReachUpTo(n - 1), Reach(n))

\* The codes function g contributes by itself: those of the values it creates
\* and those of the facts of its callees.
LocalCodes(g) ==
    UNION {LET it == ItemAt(<<g, p[1], p[2]>>) IN
           IF it.k \in {"lit", "conv"} THEN ExtractOne(<<g, p[1], p[2]>>).codes
           ELSE IF it.k = "fact" THEN it.codes
           ELSE {} : p \in Places(g)}

\* C2: the found set runVerify computes for a claiming function is the union
\* of the locally contributed codes of every function reachable from it
\* through resolved calls of the package.
C2_FoundIsReachableUnion ==
    DOMAIN foundCodes # {} =>
        LET reach == ReachUpTo(NumFuncs) IN
        \A f \in DOMAIN foundCodes :
            foundCodes[f] = UNION {LocalCodes(g) : g \in reach[f]}

\* The found set of f holds a code that only g creates, f and g being
\* mutually recursive and g distinct from f.
C2_Witness ==
    /\ pc = "done"
    /\ \E f \in DOMAIN foundCodes, g \in Funcs :
           /\ f # g
           /\ g \in Reach(f)
           /\ f \in Reach(g)
           /\ LocalCodes(g) \ LocalCodes(f) # {}
           /\ LocalCodes(g) \subseteq foundCodes[f]

\* C3: every exported ErrorCodes fact lists exactly the codes the docstring of
\* its function declares.
C3_FactIsDeclared ==
    \A f \in DOMAIN facts :
        /\ Declared(f).err = ""
        /\ Range(facts[f]) = Declared(f).codes.elems
        /\ Len(facts[f]) = Cardinality(Declared(f).codes.elems)

\* A fact was exported for a function whose found codes differ from the
\* declared ones and for which the mismatch was reported.
C3_Witness ==
    /\ pc = "done"
    /\ \E f \in DOMAIN facts :
           /\ foundCodes[f] # Declared(f).codes.elems
           /\ DiagCount(f, MsgMismatch) = 1

\* C4: at the end of the pass every function whose last result implements
\* error and whose docstring parses to a declared set (a block of codes, or
\* 'Errors: none') has a fact with exactly the declared codes.
C4_DeclaredIsExported ==
    pc = "done" =>
        \A f \in Funcs :
            (ReturnsError(f) /\ Declared(f).err = "" /\ ~Declared(f).codes.isNil) =>
                /\ f \in DOMAIN facts
                /\ Range(facts[f]) = Declared(f).codes.elems

\* C5: of the exported functions (no receiver) whose last result implements
\* error, one that says 'Errors: none' gets no 'does not declare any error
\* codes' diagnostic, one without an Errors block gets exactly one, and an
\* unexported function gets none.
C5_NoneIsNotMissing ==
    pc = "done" =>
        \A f \in Funcs :
            (ReturnsError(f) /\ Declared(f).err = "" /\ ~IsMethodDecl(pkg[f])) =>
                DiagCount(f, MsgUndeclared) =
                    IF IsExported(pkg[f].name) /\ Declared(f).codes.isNil THEN 1 ELSE 0

\* C6: a function whose docstring fails to parse gets exactly one 'odd
\* docstring' diagnostic with the parser's message, no fact and no mismatch
\* check; every other function that declares codes is checked and exported.
C6_OddDocstringIsLocal ==
    pc = "done" =>
        \A f \in Funcs :
            /\ (ReturnsError(f) /\ Declared(f).err # "") =>
                   /\ DiagCount(f, MsgOdd) = 1
                   /\ \A i \in DOMAIN diags :
                          (diags[i].fn = f /\ diags[i].msg = MsgOdd) =>
                              diags[i].detail = <<Part(Declared(f).err, <<>>)>>
                   /\ f \notin DOMAIN facts
                   /\ f \notin DOMAIN foundCodes
                   /\ DiagCount(f, MsgMismatch) = 0
            /\ (ReturnsError(f) /\ Declared(f).err = ""
                /\ Declared(f).codes.elems # {}) =>
                   /\ DiagCount(f, MsgOdd) = 0
                   /\ f \in DOMAIN facts
                   /\ f \in DOMAIN foundCodes

\* A function with a malformed docstring was visited before a function that
\* declares codes, and the latter was checked and exported.
C6_Witness ==
    /\ pc = "done"
    /\ \E i \in DOMAIN diags, g \in DOMAIN facts :
           /\ diags[i].msg = MsgOdd
           /\ diags[i].fn < g
           /\ g \in DOMAIN foundCodes

\* The parts of the mismatch message for found set F and claimed set C.
MismatchParts(F, C) ==
    (IF F \ C # {} THEN <<Part("missing codes", SortedSeqOf(F \ C))>> ELSE <<>>)
    \o (IF C \ F # {} THEN <<Part("unused codes", SortedSeqOf(C \ F))>> ELSE <<>>)

\* C7: for a checked function the mismatch diagnostic is emitted exactly when
\* the found set differs from the claimed set; it lists the found codes not
\* claimed as missing and the claimed codes not found as unused, each part
\* only when it is not empty.
C7_MismatchIffDifferent ==
    \A f \in DOMAIN foundCodes :
        LET F == foundCodes[f]
            C == funcClaims[f]
        IN  /\ DiagCount(f, MsgMismatch) = IF F = C THEN 0 ELSE 1
            /\ \A i \in DOMAIN diags :
                   (diags[i].fn = f /\ diags[i].msg = MsgMismatch) =>
                       diags[i].detail = MismatchParts(F, C)

\* A mismatch with both parts was reported, and a function without a mismatch
\* was checked.
C7_Witness ==
    /\ \E i \in DOMAIN diags :
           /\ diags[i].msg = MsgMismatch
           /\ Len(diags[i].detail) = 2
           /\ Len(diags[i].detail[1].codes) = 2
    /\ \E f \in DOMAIN foundCodes : foundCodes[f] = funcClaims[f]

\* C8: a second pass over the same package emits the same diagnostics in the
\* same order and exports facts that render the same, and the code lists of
\* all diagnostics are sorted.
C8_Deterministic ==
    (pc = "done" /\ prev # <<>>) =>
        /\ diags = prev[1].diags
        /\ DOMAIN facts = DOMAIN prev[1].facts
        /\ \A f \in DOMAIN facts :
               ErrorCodesString(facts[f]) = ErrorCodesString(prev[1].facts[f])
        /\ \A i \in DOMAIN diags :
               \A k \in DOMAIN diags[i].detail : IsSorted(diags[i].detail[k].codes)

\* Results before the last that implement error, counted one by one.
RECURSIVE EarlierErrorResults(_, _)
EarlierErrorResults(f, i) ==
    IF i >= Len(pkg[f].results) THEN 0
    ELSE (IF pkg[f].results[i].err THEN pkg[f].results[i].n ELSE 0)
         + EarlierErrorResults(f, i + 1)

\* Entries of the result list before the last whose type implements error.
EarlierErrorFields(f) ==
    {i \in 1..(Len(pkg[f].results) - 1) : pkg[f].results[i].err}

\* C9 as stated: a function with results is a candidate exactly when its last
\* result implements error; otherwise 'error should be returned as the last
\* argument' is emitted once for each earlier result that implements error.
C9_OncePerResult ==
    pc = "claims" =>
        \A f \in Funcs :
            pkg[f].results # <<>> =>
                /\ (f \in Range(funcsToAnalyse)) <=> ReturnsError(f)
                /\ DiagCount(f, MsgLast) =
                       IF ReturnsError(f) THEN 0 ELSE EarlierErrorResults(f, 1)

\* C9 as amended: the diagnostic is emitted once for each earlier entry of the
\* result list (which may declare several results of one type) whose type
\* implements error, at that entry.
C9_OncePerField ==
    pc = "claims" =>
        \A f \in Funcs :
            pkg[f].results # <<>> =>
                /\ (f \in Range(funcsToAnalyse)) <=> ReturnsError(f)
                /\ Cardinality({i \in DOMAIN funcsToAnalyse : funcsToAnalyse[i] = f}) <= 1
                /\ DiagCount(f, MsgLast) =
                       IF ReturnsError(f) THEN 0 ELSE Cardinality(EarlierErrorFields(f))
                /\ ~ReturnsError(f) =>
                       \A i \in EarlierErrorFields(f) :
                           \E k \in DOMAIN diags : diags[k] = Diag(MsgLast, f, <<i>>, <<>>)

\* The pre-pass has met a function whose last result is no error and which
\* has an earlier entry declaring two results of an error type, and a
\* function whose last and earlier results both implement error.
C9_Witness ==
    /\ pc = "claims"
    /\ \E f \in Funcs :
           /\ pkg[f].results # <<>>
           /\ ~ReturnsError(f)
           /\ \E i \in EarlierErrorFields(f) : pkg[f].results[i].n = 2
           /\ DiagCount(f, MsgLast) = 1

\* C10: for an exported function whose last result implements error and whose
\* declared set is empty, the 'does not declare any error codes' diagnostic is
\* left out exactly when it is a method named Cause whose receiver type
\* implements the coded-error-with-cause capability.
C10_OnlyCauseIsExempt ==
    pc = "done" =>
        \A f \in Funcs :
            (/\ ReturnsError(f)
             /\ Declared(f).err = ""
             /\ Declared(f).codes.elems = {}
             /\ IsExported(pkg[f].name)) =>
                (DiagCount(f, MsgUndeclared) = 0
                 <=> (pkg[f].recv = "cause" /\ pkg[f].name = "Cause"))

\* f has been visited and its component has been popped off the stack.
Completed(f) == scc.index[f] # 0 /\ ~OnStack(scc, f)

\* Each of f and g is reachable from the other through resolved calls.
SameComponent(f, g) == g \in Reach(f) /\ f \in Reach(g)

\* The value creations and conversions function g returns.
LocalAffectors(g) ==
    {<<g, p[1], p[2]>> :
        p \in {q \in Places(g) : ItemAt(<<g, q[1], q[2]>>).k \in {"lit", "conv"}}}

\* The codes function g takes from the facts of its callees.
LocalFactCodes(g) ==
    UNION {ItemAt(<<g, p[1], p[2]>>).codes :
              p \in {q \in Places(g) : ItemAt(<<g, q[1], q[2]>>).k = "fact"}}

\* C11: once the component of a function is completed, all its members have
\* the same result in lookup.analysisResults, holding the affectors and codes
\* of every member (and of what the members reach); two mutually recursive
\* claiming functions end with the same found set.
C11_ComponentSharesResult ==
    (pc \in {"verify", "done"} /\ \E f \in Funcs : Completed(f)) =>
        LET reach == ReachUpTo(NumFuncs) IN
        \A f \in Funcs :
            Completed(f) =>
                /\ f \in DOMAIN analysisResults
                /\ analysisResults[f].affectors =
                       UNION {LocalAffectors(h) : h \in reach[f]}
                /\ analysisResults[f].codes =
                       UNION {LocalFactCodes(h) : h \in reach[f]}
                /\ \A g \in Funcs :
                       (g \in reach[f] /\ f \in reach[g]) =>
                           /\ Completed(g)
                           /\ g \in DOMAIN analysisResults
                           /\ analysisResults[g] = analysisResults[f]
                           /\ (f \in DOMAIN foundCodes /\ g \in DOMAIN foundCodes) =>
                                  foundCodes[f] = foundCodes[g]

\* Two mutually recursive functions, each creating a code of its own, have
\* both been checked and both found the two codes.
C11_Witness ==
    /\ pc = "done"
    /\ \E f, g \in DOMAIN foundCodes :
           /\ f # g
           /\ SameComponent(f, g)
           /\ Reach(f) = {f, g}
           /\ analysisResults[f] = analysisResults[g]
           /\ foundCodes[f] = {f, g}
           /\ foundCodes[g] = {f, g}

\* C12: the components EndVisit returns over a pass are pairwise disjoint,
\* the functions in them are exactly the completed ones, and a component
\* holds exactly the functions mutually reachable with any of its members.
C12_ComponentsPartition ==
    pc \in {"verify", "done"} =>
        /\ \A i, j \in DOMAIN components :
               i # j => Range(components[i]) \cap Range(components[j]) = {}
        /\ components # <<>> =>
               LET reach == ReachUpTo(NumFuncs) IN
               \A i \in DOMAIN components :
                   /\ Cardinality(Range(components[i])) = Len(components[i])
                   /\ \A f \in Range(components[i]) :
                          Range(components[i]) = {g \in reach[f] : f \in reach[g]}
        /\ \A f \in Funcs :
               Completed(f) <=> \E i \in DOMAIN components : f \in Range(components[i])

\* A pass has returned a component of two functions and, apart from it, the
\* component of a function that one of the two calls.
C12_Witness ==
    /\ pc = "done"
    /\ \E i, j \in DOMAIN components :
           /\ i # j
           /\ Len(components[i]) = 2
           /\ \E f \in Range(components[i]), g \in Range(components[j]) :
                  g \in Callees(f)

\* C13: the found set of a claiming function is the same in two passes,
\* whatever the order of the loop of runVerify in either and whatever order
\* the return statements and the calls in them are processed in.
C13_Confluent ==
    prev # <<>> =>
        /\ DOMAIN foundCodes \subseteq DOMAIN prev[1].found
        /\ \A f \in DOMAIN foundCodes : foundCodes[f] = prev[1].found[f]
        /\ pc = "done" => DOMAIN foundCodes = DOMAIN prev[1].found

\* The second pass has finished over a package in which a function on a
\* cycle returns the result of a call before the value it creates itself.
C13_Witness ==
    /\ pc = "done"
    /\ prev # <<>>
    /\ \E f \in DOMAIN foundCodes :
           /\ Len(pkg[f].body) >= 2
           /\ pkg[f].body[1][1].k = "call"
           /\ pkg[f].body[Len(pkg[f].body)][1].k = "lit"
           /\ \E g \in Funcs \ {f} : SameComponent(f, g)
           /\ Cardinality(foundCodes[f]) >= 2

InFuncReturned == ~inFunc.cur.on /\ inFunc.stack = <<>>

\* C15: findAffectorsInFunc returns for every body, also with cyclic
\* assignments; an identifier occurrence that is in visited yields nothing
\* and starts no scan, so no occurrence is expanded twice.
C15_InFuncTerminates ==
    /\ [](\A i, j \in DOMAIN inFunc.expanded :
              i # j => inFunc.expanded[i] # inFunc.expanded[j])
    /\ [][(inFunc.cur.on /\ inFunc.cur.e.k = "ident"
           /\ inFunc.cur.occ \in inFunc.visited) =>
              /\ inFunc'.result = inFunc.result
              /\ inFunc'.stack = inFunc.stack
              /\ inFunc'.expanded = inFunc.expanded]_vars
    /\ <>InFuncReturned

\* The call has returned for a body with x = y and y = x, or with x = x, in
\* which the identifier on the right of such a statement was expanded.
C15_Witness ==
    /\ InFuncReturned
    /\ \E s, t \in DOMAIN inFunc.body :
           /\ inFunc.body[s] = [lhs |-> <<"x">>, rhs |-> <<EIdent("y")>>]
           /\ inFunc.body[t] = [lhs |-> <<"y">>, rhs |-> <<EIdent("x")>>]
           /\ <<s, 1>> \in inFunc.visited
           /\ <<t, 1>> \in inFunc.visited
    /\ \E s \in DOMAIN inFunc.body :
           /\ inFunc.body[s] = [lhs |-> <<"x">>, rhs |-> <<EIdent("x")>>]
           /\ <<s, 1>> \in inFunc.visited

\* The calls of getErrorTypeForError made so far for the type.
CallsFor(t) == {i \in DOMAIN errTypes.calls : errTypes.calls[i].typ = t}

\* C16: an ErrorType fact is exported at most once for a named type and does
\* not change afterwards; a later call of getErrorTypeForError for the type
\* returns that fact, analyses nothing and exports nothing.
C16_FactExportedOnce ==
    /\ [](\A i, j \in DOMAIN errTypes.exports :
              i # j => errTypes.exports[i] # errTypes.exports[j])
    /\ [][\A t \in DOMAIN errTypes.facts :
              ~errTypes.facts[t].isNil => errTypes'.facts[t] = errTypes.facts[t]]_vars
    /\ [][Len(errTypes'.calls) > Len(errTypes.calls) =>
              LET c == errTypes'.calls[Len(errTypes'.calls)] IN
              ~errTypes.facts[c.typ].isNil =>
                  /\ c.ret = errTypes.facts[c.typ]
                  /\ errTypes'.analysed = errTypes.analysed
                  /\ errTypes'.exports = errTypes.exports]_vars

\* StringError has its fact, and was asked for again through StringError and
\* through *StringError.
C16_Witness ==
    /\ ~errTypes.facts["StringError"].isNil
    /\ \E i, j, k \in CallsFor("StringError") :
           /\ i < j /\ j < k
           /\ errTypes.calls[j].via = "value"
           /\ errTypes.calls[k].via = "ptr"
           /\ errTypes.calls[k].ret = errTypes.calls[i].ret
    /\ Cardinality({i \in DOMAIN errTypes.exports : errTypes.exports[i] = "StringError"}) = 1

\* Code() returns a valid constant, or the first field it returns is a field
\* of the struct.
Legible(d) ==
    \/ \E i \in DOMAIN d.returns : d.returns[i].k = "const" /\ d.returns[i].c # BadConst
    \/ \E i \in DOMAIN d.returns :
           /\ d.returns[i].k = "field"
           /\ \A j \in 1..(i - 1) : d.returns[j].k # "field"
           /\ \E n \in DOMAIN d.fields : d.fields[n] = d.returns[i].f

Indicators ==
    {i \in DOMAIN docRun.doc.lines : docRun.doc.lines[i].t \in {"errors", "none"}}

FirstIndicator == CHOOSE i \in Indicators : \A j \in Indicators : i <= j

\* The first indicator opens a block and the line after it is neither blank
\* nor an indicator.
NoBlankAfterFirst ==
    /\ docRun.doc.lines[FirstIndicator].t = "errors"
    /\ docRun.doc.lines[FirstIndicator + 1].t \notin {"blank", "errors", "none"}

SecondIndicator ==
    CHOOSE i \in Indicators \ {FirstIndicator} :
        \A j \in Indicators \ {FirstIndicator} : i <= j

\* The first indicator opens a block, and the block holds a code line with
\* an invalid code before it ends and before the second indicator.
BadCodeInFirstBlock ==
    /\ docRun.doc.lines[FirstIndicator].t = "errors"
    /\ docRun.doc.lines[FirstIndicator + 1].t = "blank"
    /\ \E i \in (FirstIndicator + 2)..(SecondIndicator - 1) :
           /\ docRun.doc.lines[i].t = "code"
           /\ docRun.doc.lines[i].c \in BadCodes
           /\ \A j \in (FirstIndicator + 2)..(i - 1) : docRun.doc.lines[j].t # "blank"

BlockEnd(e) ==
    LET blanks == {i \in DOMAIN docRun.doc.lines :
                      i > e + 1 /\ docRun.doc.lines[i].t = "blank"}
    IN  IF blanks = {} THEN Len(docRun.doc.lines) + 1
        ELSE CHOOSE i \in blanks : \A j \in blanks : i <= j

C20_ExpectCodesTransitions ==
    [][docRun'.pos = docRun.pos + 1 =>
          LET line == docRun.doc.lines[docRun'.pos] IN
          /\ (docRun.st.s = "expectCodes" /\ line.t = "code"
              /\ isErrorCodeValid(CodeText(line.c))) =>
                 /\ docRun'.st.s = "expectCodes"
                 /\ docRun'.st.codes = SetOf(docRun.st.codes.elems \cup {line.c})
          /\ (docRun.st.s = "expectCodes" /\ line.t \in {"blank", "prose"}) =>
                 docRun'.st.s = "afterBlock"
          /\ docRun.st.s = "afterBlock" => docRun'.st.codes = docRun.st.codes]_vars

C22_FactCalleeIsOpaque ==
    [][(/\ AtItem
        /\ \/ TopItem.k = "fact"
           \/ TopItem.k \in {"call", "meth"} /\ TopItem.to \in DOMAIN funcClaims)
           => /\ Len(frames') = Len(frames)
              /\ frames'[Len(frames)].result =
                     [Top.result EXCEPT !.codes =
                         union(@, IF TopItem.k = "fact" THEN TopItem.codes
                                  ELSE funcClaims[TopItem.to])]]_vars

\* The imported half of C22 on its own.
C22_ImportedFactIsOpaque ==
    [][(AtItem /\ TopItem.k = "fact")
           => /\ Len(frames') = Len(frames)
              /\ frames'[Len(frames)].result =
                     [Top.result EXCEPT !.codes = union(@, TopItem.codes)]]_vars

\* The places of f that hold a call through a package-qualified selector whose
\* callee has no fact.
ForeignPlaces(f) == {p \in Places(f) : ItemAt(<<f, p[1], p[2]>>).k = "pkg"}

\* C23: a call through a package-qualified selector whose callee has no fact
\* is reported with 'function X in package P does not declare error codes',
\* adds neither codes nor an affector to the result, the walk goes on with the
\* step result after it, and at the end of the pass the calling function, if
\* it declares codes, has its fact with the declared set.
C23_ForeignCallIsOpaque ==
    /\ [][(AtItem /\ TopItem.k = "pkg") =>
              /\ diags' = Append(diags, Diag(MsgForeign, Top.fn,
                                             <<TopPlace.ri, TopPlace.si>>, <<>>))
              /\ Len(frames') = Len(frames)
              /\ frames'[Len(frames)] = [Top EXCEPT !.pos = @ + 1]]_vars
    /\ [](pc = "done" =>
              \A f \in DOMAIN funcClaims : \A p \in ForeignPlaces(f) :
                  /\ f \in DOMAIN facts
                  /\ Range(facts[f]) = funcClaims[f]
                  /\ Cardinality({i \in DOMAIN diags :
                                     diags[i] = Diag(MsgForeign, f, p, <<>>)}) = 1
                  /\ <<f, p[1], p[2]>> \notin analysisResults[f].affectors
                  /\ LocalCodes(f) \subseteq foundCodes[f])

\* A pass has ended for a function that declares code 1, calls into another
\* package and then creates an error with code 2: the call was reported, the
\* code after it was found, and the fact holds the declared code.
C23_Witness ==
    /\ pc = "done"
    /\ \E f \in DOMAIN facts :
           /\ pkg[f].body[1] = <<IPkg, ILit("Error", 2)>>
           /\ DiagCount(f, MsgForeign) = 1
           /\ foundCodes[f] = {1, 2}
           /\ Range(facts[f]) = {1}

\* The variable an expanded identifier occurrence names: <<0, 1>> is the
\* expression of the return statement.
VarAt(occ) ==
    IF occ = <<0, 1>> THEN "x" ELSE inFunc.body[occ[1]].rhs[occ[2]].v

\* How many identifier occurrences naming variable v were expanded.
ExpandedFor(v) ==
    Cardinality({k \in DOMAIN inFunc.expanded : VarAt(inFunc.expanded[k]) = v})

\* The statements that destructure one call.
Destructurings ==
    {s \in DOMAIN inFunc.body : Len(inFunc.body[s].lhs) > Len(inFunc.body[s].rhs)}

\* C24: where the traced identifier is on the left of an assignment with more
\* left-hand than right-hand expressions, the call on the right is added as
\* an affector if the identifier is the last left-hand element; if it is not
\* the last, the 'unsupported: ... non-last return argument' diagnostic is
\* emitted and the assignment adds no affector.  When the call has returned,
\* each destructuring statement has added its call once per expanded
\* occurrence of its last variable, and got one report per expanded
\* occurrence of its other variable.
C24_DestructuringLastOnly ==
    /\ [][(/\ Scanning
           /\ ScanStmt.lhs[ScanTop.i] = ScanTop.v
           /\ Len(ScanStmt.lhs) > Len(ScanStmt.rhs)) =>
              IF ScanTop.i = Len(ScanStmt.lhs)
                  THEN /\ ScanStmt.rhs[1].k = "call"
                       /\ inFunc'.result = Append(inFunc.result, <<ScanTop.s, 1>>)
                       /\ inFunc'.reports = inFunc.reports
                  ELSE /\ inFunc'.result = inFunc.result
                       /\ inFunc'.reports =
                              Append(inFunc.reports,
                                     [msg |-> MsgNonLast, at |-> <<ScanTop.s, ScanTop.i>>])
                       /\ inFunc'.cur = inFunc.cur]_vars
    /\ [](InFuncReturned =>
              \A s \in Destructurings :
                  LET lhs == inFunc.body[s].lhs IN
                  /\ Cardinality({k \in DOMAIN inFunc.result : inFunc.result[k] = <<s, 1>>})
                         = ExpandedFor(lhs[Len(lhs)])
                  /\ \A i \in 1..(Len(lhs) - 1) :
                         Cardinality({k \in DOMAIN inFunc.reports :
                                         inFunc.reports[k] = [msg |-> MsgNonLast, at |-> <<s, i>>]})
                             = ExpandedFor(lhs[i]))

\* The call for `return x` has returned for a body with `x, y = f()` and
\* `y, x = f()`: the first was reported and added nothing, the call of the
\* second is an affector.
C24_Witness ==
    /\ InFuncReturned
    /\ \E s, t \in DOMAIN inFunc.body :
           /\ inFunc.body[s] = [lhs |-> <<"x", "y">>, rhs |-> <<ECall>>]
           /\ inFunc.body[t] = [lhs |-> <<"y", "x">>, rhs |-> <<ECall>>]
           /\ [msg |-> MsgNonLast, at |-> <<s, 1>>] \in Range(inFunc.reports)
           /\ <<s, 1>> \notin Range(inFunc.result)
           /\ <<t, 1>> \in Range(inFunc.result)

\* The clauses <<s, i>> of the body that assign to variable v with a
\* positionally matching right-hand side.
AssignmentsTo(v) ==
    {c \in UNION {{<<s, i>> : i \in DOMAIN inFunc.body[s].lhs} : s \in DOMAIN inFunc.body} :
        /\ inFunc.body[c[1]].lhs[c[2]] = v
        /\ c[1] \notin Destructurings}

\* The variables whose assignments can reach the variables of V.
RECURSIVE TracedFrom(_)
TracedFrom(V) ==
    LET W == V \cup {inFunc.body[c[1]].rhs[c[2]].v :
                        c \in {d \in UNION {AssignmentsTo(v) : v \in V} :
                                  inFunc.body[d[1]].rhs[d[2]].k = "ident"}}
    IN  IF W = V THEN V ELSE TracedFrom(W)

\* The affectors the assignments to v give directly: a call or a value on
\* the matching right-hand side, or the call it is the last result of.
DirectAffectors(v) ==
    {c \in AssignmentsTo(v) : inFunc.body[c[1]].rhs[c[2]].k \in {"call", "lit"}}
    \cup {<<s, 1>> : s \in {t \in Destructurings :
                               inFunc.body[t].lhs[Len(inFunc.body[t].lhs)] = v}}

ReturnsTwoFields(d) ==
    \E i, j \in DOMAIN d.returns :
        /\ d.returns[i].k = "field"
        /\ d.returns[j].k = "field"
        /\ d.returns[i].f # d.returns[j].f

\* C26: when the Code() method of an analysed error type returns two distinct
\* receiver fields, the 'only single field allowed' diagnostic is emitted and
\* no field is recorded: the fact of the type has no Field, and there is no
\* fact if the method returns no constant code either.
C26_TwoFieldsNoField ==
    \A t \in TypeNames :
        (/\ errTypes.phase # "idle"
         /\ \E k \in DOMAIN errTypes.analysed : errTypes.analysed[k] = t
         /\ ReturnsTwoFields(errTypes.decls[t])) =>
            /\ MsgSingleField \in Range(errTypes.diags)
            /\ errTypes.facts[t].field.isNil
            /\ (\A i \in DOMAIN errTypes.decls[t].returns :
                    errTypes.decls[t].returns[i].k # "const") => errTypes.facts[t].isNil

\* The literal of the affector, a single & taken off.
LiteralOf(expr) == IF expr.k = "amp" THEN expr.x ELSE expr

\* The value the literal gives the field: the one at the key of that name in
\* a keyed literal, the one at the index of the position in an unkeyed one.
ValueOfField(lit, field) ==
    IF lit.keyed
        THEN IF \E i \in DOMAIN lit.elts : lit.elts[i].key = field.name
                 THEN [there |-> TRUE,
                       val |-> lit.elts[CHOOSE i \in DOMAIN lit.elts :
                                            lit.elts[i].key = field.name].val]
                 ELSE [there |-> FALSE, val |-> NonConstValue]
    ELSE IF field.position < Len(lit.elts)
        THEN [there |-> TRUE, val |-> lit.elts[field.position + 1].val]
    ELSE [there |-> FALSE, val |-> NonConstValue]

\* What the claim C27 says of a finished extraction whose constant, if there
\* is one, is in the set Texts.
FieldExtractionFor(Texts) ==
    (/\ fieldRun.done
     /\ LiteralOf(fieldRun.expr).k = "lit") =>
        LET v == ValueOfField(LiteralOf(fieldRun.expr), fieldRun.errorType.field)
            constants == Range(fieldRun.errorType.codes)
        IN  IF ~v.there \/ ~v.val.const
                THEN /\ fieldRun.reports = <<MsgNotConst>>
                     /\ fieldRun.result = constants
            ELSE v.val.s \in Texts =>
                     IF isErrorCodeValid(v.val.s)
                         THEN /\ fieldRun.reports = <<>>
                              /\ fieldRun.result = constants \cup {v.val.s}
                         ELSE /\ Len(fieldRun.reports) = 1
                              /\ fieldRun.reports[1] # MsgNotConst
                              /\ fieldRun.result = constants

\* C27: for an error type with Field {name, position}, the code of a keyed
\* literal is the string constant at the key equal to name, whatever the
\* order of the elements, that of an unkeyed literal the string constant at
\* index position, and &literal gives what literal gives; a value that is
\* missing or no constant gives the error 'error code field has to be
\* instantiated by constant value', and a constant that isErrorCodeValid
\* rejects is reported and not added to the found set.
C27_FieldExtraction ==
    FieldExtractionFor({v.s : v \in FieldValues})

\* C27 for the constants that constant.Value.String does not shorten.
C27_FieldExtractionOfShortConstants ==
    FieldExtractionFor({v.s : v \in {w \in FieldValues : Len(Quote(w.s)) <= maxLen}})

\* An extraction has ended with the code of a keyed literal whose code field
\* comes second.
C27_ShortWitness ==
    /\ fieldRun.done
    /\ fieldRun.expr.k = "amp"
    /\ fieldRun.expr.x.keyed
    /\ Len(fieldRun.expr.x.elts) = 2
    /\ fieldRun.expr.x.elts[2] = [key |-> "TheCode", val |-> ConstValue(CodeText(2))]
    /\ fieldRun.result = {CodeText(2)}

\* C28: unsupported constructs in well-typed input never abort the pass; in
\* particular an error type whose Code() method has a named value receiver
\* and returns a field of that receiver leads to a fact or a diagnostic, not
\* to a panic, and the pass goes on.
C28_NoPanic ==
    /\ errTypes.phase # "panic"
    /\ \A t \in TypeNames :
           (/\ errTypes.phase \in {"use", "done"}
            /\ errTypes.decls[t].recv = "value"
            /\ \E i \in DOMAIN errTypes.decls[t].returns :
                   errTypes.decls[t].returns[i].k = "field") =>
               \/ ~errTypes.facts[t].isNil
               \/ errTypes.diags # <<>>

\* C29: within one pass findAffectorsOfErrorReturnInFunc is entered for a
\* function only while it is unvisited, and a visited function stays visited,
\* so each body is analysed at most once; a later demand for the function, by
\* a call edge or by the loop of runVerify, takes what lookup.analysisResults
\* holds for it, which for a function of a finished component is the result
\* shared by the component and no longer changes.
C29_BodyAnalysedOnce ==
    /\ [][Len(frames') > Len(frames) =>
              LET g == frames'[Len(frames')].fn IN
              /\ scc.index[g] = 0
              /\ g \notin DOMAIN analysisResults
              /\ scc'.index[g] # 0]_vars
    /\ [][\A g \in Funcs :
              /\ scc.index[g] # 0 => scc'.index[g] = scc.index[g]
              /\ (Completed(g) /\ g \in DOMAIN analysisResults) =>
                     /\ g \in DOMAIN analysisResults'
                     /\ analysisResults'[g] = analysisResults[g]]_vars
    /\ [][(/\ AtItem
           /\ TopItem.k \in {"call", "meth"}
           /\ TopItem.to # 0
           /\ scc.index[TopItem.to] # 0) =>
              /\ Len(frames') = Len(frames)
              /\ frames'[Len(frames)].result =
                     combine(Top.result,
                             IF TopItem.to \in DOMAIN analysisResults
                                 THEN analysisResults[TopItem.to] ELSE EmptyResult)]_vars
    /\ [][(pc = "verify" /\ frames = <<>> /\ frames' = <<>> /\ todo' # todo) =>
              \E f \in todo :
                  /\ todo' = todo \ {f}
                  /\ Completed(f)
                  /\ analysisResults' = analysisResults
                  /\ analysisResults[f].codes \subseteq foundCodes'[f]]_vars
    /\ [](\A i \in DOMAIN components : \A f, g \in Range(components[i]) :
              /\ f \in DOMAIN analysisResults
              /\ analysisResults[f] = analysisResults[g])

\* The walk stands at a call of a function that was analysed earlier in the
\* pass and whose component is finished: its stored result is about to be
\* used.
C29_Witness ==
    /\ AtItem
    /\ TopItem.k = "call"
    /\ TopItem.to # 0
    /\ Completed(TopItem.to)
    /\ TopItem.to \in DOMAIN analysisResults
    /\ analysisResults[TopItem.to].affectors # {}

\* C30: whenever a top-level call of findAffectorsOfErrorReturnInFunc has
\* returned to runVerify, the stack of the SCC state is empty and every
\* function visited so far is done and has a stored result; the function the
\* call started from is the root of its component when it returns.
C30_StackEmptyBetweenIterations ==
    /\ []((frames = <<>> /\ pc \in {"verify", "done"}) =>
              /\ scc.stack = <<>>
              /\ \A f \in Funcs :
                     scc.index[f] # 0 => Completed(f) /\ f \in DOMAIN analysisResults)
    /\ [][(Len(frames) = 1 /\ frames' = <<>>) =>
              /\ IsComponentRoot(scc, Top.fn)
              /\ scc'.stack = <<>>]_vars

\* Between two iterations of the loop of runVerify, after a call that
\* returned a component of more than one function.
C30_Witness ==
    /\ pc = "verify"
    /\ frames = <<>>
    /\ todo # {}
    /\ scc.stack = <<>>
    /\ \E i \in DOMAIN components : Len(components[i]) >= 2

\* The two regular expressions of the documentation, matched directly.
IsLetter(c) == (c >= 97 /\ c <= 122) \/ (c >= 65 /\ c <= 90)
IsDigit(c) == c >= 48 /\ c <= 57

MatchesSingle(s) == Len(s) = 1 /\ IsLetter(s[1])

MatchesLong(s) ==
    /\ Len(s) >= 2
    /\ IsLetter(s[1])
    /\ \A i \in 2..(Len(s) - 1) : IsLetter(s[i]) \/ IsDigit(s[i]) \/ s[i] = 45
    /\ IsLetter(s[Len(s)]) \/ IsDigit(s[Len(s)])

\* C1: isErrorCodeValid(code) is true exactly when code matches ^[A-Za-z]$ or
\* ^[A-Za-z][A-Za-z0-9-]*[A-Za-z0-9]$.
C1_ValidIffRegex ==
    codeChecked => (valid <=> (MatchesSingle(code) \/ MatchesLong(code)))

\* A string with an inner dash was accepted and the validator has run.
C1_Witness ==
    /\ codeChecked
    /\ valid
    /\ Len(code) = 3
    /\ code[2] = 45

====
